---- MODULE Spec2Model ----
(***************************************************************************)
(* Model of the bridge factory, packages/bridge/src/create-bridge.ts:      *)
(* the closure state of createBridge, its two subscription callbacks, the  *)
(* push scheduler and the Bridge methods.  The runtime, the Adapter and    *)
(* the Actuator are collaborators: the model keeps the runtime's values    *)
(* (rt), the external store (ext) and the JavaScript timer table (timers), *)
(* and lets the environment choose what the collaborators answer.          *)
(*                                                                         *)
(* Every handler is one action.  A handler is computed by operators that   *)
(* take the closure state as a record s and return the record after the    *)
(* call, so nested synchronous calls (runtime.set -> notification ->       *)
(* schedulePush -> flushPush -> Actuator) compose as in the code.          *)
(***************************************************************************)
EXTENDS Naturals, Sequences, FiniteSets, TLC

\* ------------------------------------------------------------------ bounds
\* Longest debounce window, in clock ticks.
MaxDebounce == 2
\* Most execute(EXECUTE_ACTION) calls suspended at the await at one time.
MaxInflight == 1
\* Most bridges one mounted component makes useManifestoBridge create.
MaxBridges == 3
\* Most subscribe calls made on one Zustand adapter.
MaxSubscriptions == 2
\* Longest path string given to parsePath, in characters.
MaxPathLen == 4
\* Longest segment sequence given to getNestedValue and setNestedValue.
MaxSegments == 3
\* Most pull and push steps one change is followed through.
MaxHops == 8

\* ------------------------------------------------------------------- paths
\* A SemanticPath is modelled by its dot-separated segments.
da == <<"data", "a">>
db == <<"data", "b">>
ss == <<"state", "s">>
dd == <<"derived", "d">>

DataPaths == {da, db}
StatePaths == {ss}
StoredPaths == DataPaths \cup StatePaths
AllPaths == StoredPaths \cup {dd}
\* Iteration order of arrays and Sets of paths.
PathOrder == <<da, db, ss, dd>>

Values == {"v0", "v1"}
\* The values a stored path takes in the model: data.b keeps its initial value.
ValuesOf(p) == IF p = db THEN {"v0"} ELSE Values
\* What a normalizing store keeps of a value written to it.
Normal(v) == IF v = "v1" THEN "v1n" ELSE v
\* The values the runtime accepts: those, and what a store makes of them.
StoreValues == Values \cup {Normal(v) : v \in Values}
Undefined == "undefined"
Null == "null"
\* No path: an absent error.path, a command without a path.
NoPath == <<>>

\* The paths the user edits in the external store.
EditedPaths == {da}

\* The paths whose repeated notification the model keeps track of.
Tracked == {da}

TimerIds == {"t1", "t2", "t3"}
ListenerIds == {"l1", "l2"}
\* The listeners that throw whenever they are invoked.
Throwing == {"l1"}
Outcomes == {"ok", "invalid", "throw"}
EmptyMap == [q \in {} |-> Undefined]

VARIABLES
  syncMode, autoSync, debounceMs,      \* config, create-bridge.ts:53-55
  hasSetManyData, hasSetManyState,     \* the Actuator has the batched methods
  adapterHasSubscribe,                 \* the Adapter has subscribe
  keepsClosures,   \* the application keeps an unsubscribe closure after
                   \* calling it, and may call it again
  called,          \* listeners whose kept closure has been called
  isDisposed, syncTimeoutId, pendingPaths,
  listeners,   \* the Set of listeners, in insertion order
  adapterUnsubscribe, runtimeUnsubscribe,
  rt,          \* the runtime's data and state values
  ext,         \* the external store behind Adapter and Actuator
  timers,      \* the host's timer table: live timer id -> ticks left
  inflight,    \* execute(EXECUTE_ACTION) calls suspended at the await
  elapsed,     \* ticks since the last notification reached schedulePush,
               \* counted while a timer is live
  readded,     \* tracked paths notified again while already pending
  ev,          \* what the last step did: calls made, result, exception
  cycle,       \* where a change stands on its way round the pull and push
               \* wiring, followed callback by callback
  \* useManifestoBridge in one component
  hookPhase,     \* "unmounted" before the first render, "mounted", "gone"
  hookDeps,      \* form, runtime and options of the last render
  hookBridges,   \* closure state of each bridge the useMemo created, in order
  bridgeRef,     \* bridgeRef.current: the number of a bridge, 0 before any
  effectBridge,  \* the bridge whose effect is installed, 0 if none
  hev,           \* what the last step of the hook did
  \* a reactive adapter and the store behind it
  adapterKind,   \* which adapter the application created, "none" if none
  hasStateSelector,  \* options.stateSelector is given (Zustand)
  zStore,        \* the Zustand store's state: key -> value
  zSubs,         \* one entry per subscribe call on the Zustand adapter: its
                 \* listener, prevData, prevState, and whether its
                 \* api.subscribe subscription is still installed
  zListeners,    \* the Zustand adapter's Set of listeners, insertion order
  watchSubscription,  \* the React Hook Form adapter's form.watch is installed
  rListeners,    \* the React Hook Form adapter's Set of listeners
  rClosures,     \* listeners whose unsubscribe closure the application holds
  aev,           \* what the last step on the adapter did
  \* the path utilities
  cev            \* the last call of a path utility: arguments and outcome

\* The variables of the bridge under createBridge.
bridgeVars == <<syncMode, autoSync, debounceMs, hasSetManyData, hasSetManyState,
          adapterHasSubscribe, keepsClosures, called,
          isDisposed, syncTimeoutId, pendingPaths, listeners,
          adapterUnsubscribe, runtimeUnsubscribe, rt, ext, timers, inflight,
          elapsed, readded, ev, cycle>>

hookVars == <<hookPhase, hookDeps, hookBridges, bridgeRef, effectBridge, hev>>

adapterVars == <<adapterKind, hasStateSelector, zStore, zSubs, zListeners,
                 watchSubscription, rListeners, rClosures, aev>>

codecVars == <<cev>>

vars == <<bridgeVars, hookVars, adapterVars, codecVars>>

config == <<syncMode, autoSync, debounceMs, hasSetManyData, hasSetManyState,
            adapterHasSubscribe, keepsClosures>>

\* ------------------------------------------------------------ step record
\* What a step records of itself; ev keeps it until the handler has returned.
LogFields ==
  {"op", "tag", "input", "batch", "answers", "cmdPath", "target", "again",
   "listenersBefore", "preconditions", "wasDisposed", "calls", "notified",
   "invoked", "caught", "pushed",
   "scheduled", "flushes", "reentered", "flushedAt", "drained", "coalesced",
   "raised",
   "ret", "retPath", "threw", "result", "errPath", "cause"}

\* The closure state at the start of a handler, with an empty log.
Cur(op) ==
  [ isDisposed |-> isDisposed, syncTimeoutId |-> syncTimeoutId,
    pendingPaths |-> pendingPaths, listeners |-> listeners,
    adapterUnsubscribe |-> adapterUnsubscribe,
    runtimeUnsubscribe |-> runtimeUnsubscribe,
    rt |-> rt, ext |-> ext, timers |-> timers, inflight |-> inflight,
    elapsed |-> elapsed, readded |-> readded, called |-> called,
    overflow |-> FALSE,    \* the model's timer ids ran out
    op |-> op,
    tag |-> "none",        \* command.type of an execute call
    input |-> "none",      \* what the collaborator answers in this step
    batch |-> {},          \* changed paths the Adapter reports in this step
    answers |-> EmptyMap,  \* what runtime.set answers for each of them
    cmdPath |-> NoPath,    \* command.path of an execute call
    target |-> "none",     \* the listener of a subscribe or unsubscribe step
    again |-> FALSE,       \* the closure called had been called before
    listenersBefore |-> listeners,
    preconditions |-> <<>>,  \* satisfied flags runtime.getPreconditions reports
    wasDisposed |-> isDisposed,
    calls |-> <<>>,        \* calls made on runtime, adapter, actuator, in order
    notified |-> <<>>,     \* changes the runtime announced, in order
    invoked |-> <<>>,      \* bridge listeners invoked, in order
    caught |-> 0,          \* listener exceptions caught and logged
    pushed |-> <<>>,       \* pushToExternal runs: their paths and their calls
    scheduled |-> 0,       \* times schedulePush ran
    flushes |-> 0,         \* times flushPush got past its guard
    flushing |-> 0,        \* runs of flushPush that have not returned yet
    reentered |-> 0,       \* times flushPush was entered during such a run
    flushedAt |-> 0,       \* elapsed when it last did
    drained |-> {},        \* paths flushPush took out of pendingPaths
    coalesced |-> {},      \* paths flushed once after several notifications
    raised |-> FALSE,      \* the runtime threw, or its promise rejected
    ret |-> "none",        \* Result of the last runtime.set / setMany: ok, invalid
    retPath |-> NoPath,    \* error.path of that Result
    threw |-> "none",      \* exception leaving the handler
    result |-> "none",     \* code of the Result execute resolves to
    errPath |-> NoPath,    \* error.path of that Result
    cause |-> Null ]       \* error.cause of that Result

\* The log of a step that has returned to the event loop.
IdleEv ==
  [ op |-> "idle", tag |-> "none", input |-> "none", batch |-> {},
    answers |-> EmptyMap, cmdPath |-> NoPath, target |-> "none", again |-> FALSE,
    listenersBefore |-> <<>>, preconditions |-> <<>>, wasDisposed |-> FALSE, calls |-> <<>>, notified |-> <<>>, invoked |-> <<>>,
    caught |-> 0, pushed |-> <<>>, scheduled |-> 0,
    flushes |-> 0, reentered |-> 0, flushedAt |-> 0, drained |-> {},
    coalesced |-> {}, raised |-> FALSE, ret |-> "none", retPath |-> NoPath, threw |-> "none",
    result |-> "none", errPath |-> NoPath, cause |-> Null ]

\* Handlers run one at a time, each from the idle event loop.
Idle == ev.op = "idle"

\* The step's effect on the variables.
Install(r) ==
  /\ ~r.overflow
  /\ isDisposed' = r.isDisposed
  /\ syncTimeoutId' = r.syncTimeoutId
  /\ pendingPaths' = r.pendingPaths
  /\ listeners' = r.listeners
  /\ adapterUnsubscribe' = r.adapterUnsubscribe
  /\ runtimeUnsubscribe' = r.runtimeUnsubscribe
  /\ rt' = r.rt
  /\ ext' = r.ext
  /\ timers' = r.timers
  /\ inflight' = r.inflight
  /\ elapsed' = IF DOMAIN r.timers = {} THEN debounceMs ELSE r.elapsed
  /\ readded' = r.readded
  /\ called' = r.called
  /\ ev' = [f \in LogFields |-> r[f]]
  /\ UNCHANGED <<config, cycle, hookVars, adapterVars, codecVars>>

Call(s, to, m, upd) ==
  [s EXCEPT !.calls = Append(@, [to |-> to, m |-> m, upd |-> upd])]

\* path.startsWith('<ns>.')
startsWith(path, ns) == Len(path) > 1 /\ path[1] = ns

\* The paths of a set, in iteration order.
RECURSIVE InOrder(_, _)
InOrder(paths, i) ==
  IF i > Len(PathOrder) THEN <<>>
  ELSE (IF PathOrder[i] \in paths THEN <<PathOrder[i]>> ELSE <<>>)
       \o InOrder(paths, i + 1)

\* ---------------------------------------------------------------- runtime
\* runtime.get(path): a derived value is computed from the data it depends on.
runtimeValue(s, path) ==
  IF path \in StoredPaths THEN s.rt[path]
  ELSE IF path = dd THEN s.rt[da] ELSE Undefined

runtimeGet(s, path) == Call(s, "runtime", "get", path :> runtimeValue(s, path))

\* snapshot.data / snapshot.state keys, as sync() turns them into paths.
snapshotPaths(s) == StoredPaths

\* ------------------------------------------------------------- the store
\* adapter.getData / adapter.getState of the vanilla adapter: getValueByPath.
adapterValue(s, path) ==
  IF path \in StoredPaths THEN s.ext[path] ELSE Undefined

\* An Actuator write: the call is logged and lands in the external store.
actuatorWrite(s, m, upd) ==
  [Call(s, "actuator", m, upd) EXCEPT
     !.ext = [q \in DOMAIN @ |-> IF q \in DOMAIN upd THEN upd[q] ELSE @[q]]]

\* ------------------------------------------------------------------ timers
\* setTimeout(() => flushPush(), debounceMs): a fresh timer id.
setTimeout(s) ==
  LET free == TimerIds \ DOMAIN s.timers IN
  IF free = {} THEN [s EXCEPT !.overflow = TRUE]
  ELSE LET id == CHOOSE t \in free : TRUE IN
       [s EXCEPT !.timers = (id :> debounceMs) @@ @, !.syncTimeoutId = id]

clearTimeout(s, id) ==
  [s EXCEPT !.timers = [t \in DOMAIN @ \ {id} |-> @[t]]]

\* ------------------------------------------------------------ push helpers
\* The scalar fallback loop of pushToExternal.
RECURSIVE scalarWrites(_, _, _)
scalarWrites(s, m, seq) ==
  IF seq = <<>> THEN s
  ELSE LET p == Head(seq)
           s1 == runtimeGet(s, p)
       IN scalarWrites(actuatorWrite(s1, m, p :> runtimeValue(s1, p)), m, Tail(seq))

\* The loop that fills the updates record of a batched write.
RECURSIVE readUpdates(_, _)
readUpdates(s, seq) ==
  IF seq = <<>> THEN s ELSE readUpdates(runtimeGet(s, Head(seq)), Tail(seq))

\* batchedWrite that fills the updates from the external store, not the runtime.
batchedWrite_fromStore(s, m, paths) ==
  LET s1 == readUpdates(s, InOrder(paths, 1))
  IN actuatorWrite(s1, m, [p \in paths |-> adapterValue(s1, p)])

batchedWrite(s, m, paths) ==
  LET s1 == readUpdates(s, InOrder(paths, 1))
  IN actuatorWrite(s1, m, [p \in paths |-> runtimeValue(s1, p)])

\* A run of pushToExternal is logged with its paths and the span of its calls.
pushLog(s0, s1, paths) ==
  [s1 EXCEPT !.pushed = Append(@, [paths |-> paths, from |-> Len(s0.calls) + 1,
                                   to |-> Len(s1.calls)])]

\* pushToExternal that takes every path outside state.* for a data path.
pushToExternal_noDataCheck(s, paths) ==
  LET statePaths == {p \in paths : startsWith(p, "state")}
      dataPaths == {p \in paths : ~startsWith(p, "state")}
      s1 == IF dataPaths = {} THEN s
            ELSE IF hasSetManyData THEN batchedWrite(s, "setManyData", dataPaths)
            ELSE scalarWrites(s, "setData", InOrder(dataPaths, 1))
      s2 == IF statePaths = {} THEN s1
            ELSE IF hasSetManyState THEN batchedWrite(s1, "setManyState", statePaths)
            ELSE scalarWrites(s1, "setState", InOrder(statePaths, 1))
  IN pushLog(s, s2, paths)

\* pushToExternal that never uses the batched methods.
pushToExternal_scalarOnly(s, paths) ==
  LET statePaths == {p \in paths : startsWith(p, "state")}
      dataPaths == {p \in paths : ~startsWith(p, "state") /\ startsWith(p, "data")}
      s1 == IF dataPaths = {} THEN s
            ELSE scalarWrites(s, "setData", InOrder(dataPaths, 1))
      s2 == IF statePaths = {} THEN s1
            ELSE scalarWrites(s1, "setState", InOrder(statePaths, 1))
  IN pushLog(s, s2, paths)

pushToExternal(s, paths) ==
  LET statePaths == {p \in paths : startsWith(p, "state")}
      dataPaths == {p \in paths : ~startsWith(p, "state") /\ startsWith(p, "data")}
      s1 == IF dataPaths = {} THEN s
            ELSE IF hasSetManyData THEN batchedWrite(s, "setManyData", dataPaths)
            ELSE scalarWrites(s, "setData", InOrder(dataPaths, 1))
      s2 == IF statePaths = {} THEN s1
            ELSE IF hasSetManyState THEN batchedWrite(s1, "setManyState", statePaths)
            ELSE scalarWrites(s1, "setState", InOrder(statePaths, 1))
  IN pushLog(s, s2, paths)

\* The record of a run of flushPush that starts in state s.
flushStart(s) ==
  [s EXCEPT !.pendingPaths = {}, !.syncTimeoutId = Null,
            !.flushes = @ + 1, !.flushedAt = s.elapsed,
            !.flushing = @ + 1,
            !.reentered = IF s.flushing > 0 THEN @ + 1 ELSE @,
            !.drained = @ \cup s.pendingPaths, !.coalesced = @ \cup s.readded,
            !.readded = {}]

\* flushPush that pushes the pending paths and leaves them pending.
flushPush_keepsPending(s) ==
  IF s.isDisposed THEN s
  ELSE [pushToExternal([flushStart(s) EXCEPT !.pendingPaths = s.pendingPaths],
                       s.pendingPaths) EXCEPT !.flushing = @ - 1]

flushPush(s) ==
  IF s.isDisposed THEN s
  ELSE [pushToExternal(flushStart(s), s.pendingPaths) EXCEPT !.flushing = @ - 1]

\* schedulePush that arms a new timer without clearing the armed one.
schedulePush_noClear(s, paths) ==
  LET s1 == [s EXCEPT !.pendingPaths = @ \cup paths,
                      !.readded = @ \cup (s.pendingPaths \cap paths \cap Tracked),
                      !.elapsed = 0, !.scheduled = @ + 1]
  IN IF debounceMs > 0 THEN setTimeout(s1) ELSE flushPush(s1)

schedulePush(s, paths) ==
  LET s1 == [s EXCEPT !.pendingPaths = @ \cup paths,
                      !.readded = @ \cup (s.pendingPaths \cap paths \cap Tracked),
                      !.elapsed = 0, !.scheduled = @ + 1]
  IN IF debounceMs > 0
     THEN setTimeout(IF s1.syncTimeoutId # Null
                     THEN clearTimeout(s1, s1.syncTimeoutId) ELSE s1)
     ELSE flushPush(s1)

\* ------------------------------------------------------ subscription wiring
\* The pull condition without its test of syncMode.
pullWiring_anyMode == adapterHasSubscribe

\* The pull condition that leaves bidirectional mode without pull wiring.
pullWiring_pullOnly == syncMode = "pull" /\ adapterHasSubscribe

\* createBridge subscribes to the Adapter.
pullWiring == syncMode \in {"pull", "bidirectional"} /\ adapterHasSubscribe

\* createBridge subscribes to the runtime.
pushWiring == syncMode \in {"push", "bidirectional"}

\* The members of a sequence.
Range(seq) == {seq[i] : i \in 1..Len(seq)}

\* The listener loop without its try/catch: the first exception ends the loop
\* and leaves the callback.
RECURSIVE notifyListeners_noCatch(_, _, _, _)
notifyListeners_noCatch(s, seq, snapshot, changedPaths) ==
  IF seq = <<>> THEN s
  ELSE LET s1 == [s EXCEPT !.invoked =
                     Append(@, [listener |-> Head(seq), n |-> Len(s.notified),
                                snapshot |-> snapshot, changedPaths |-> changedPaths,
                                at |-> Len(s.calls), store |-> s.ext])]
       IN IF Head(seq) \in Throwing
          THEN [s1 EXCEPT !.threw = "listener"]
          ELSE notifyListeners_noCatch(s1, Tail(seq), snapshot, changedPaths)

\* for (const listener of listeners) { try { listener(...) } catch ... }
\* An invocation is logged with the number of the notification it answers,
\* the number of calls made before it and the store as the listener finds it.
RECURSIVE notifyListeners(_, _, _, _)
notifyListeners(s, seq, snapshot, changedPaths) ==
  IF seq = <<>> THEN s
  ELSE LET s1 == [s EXCEPT !.invoked =
                     Append(@, [listener |-> Head(seq), n |-> Len(s.notified),
                                snapshot |-> snapshot, changedPaths |-> changedPaths,
                                at |-> Len(s.calls), store |-> s.ext])]
           s2 == IF Head(seq) \in Throwing THEN [s1 EXCEPT !.caught = @ + 1] ELSE s1
       IN notifyListeners(s2, Tail(seq), snapshot, changedPaths)

\* The callback that forwards to the listeners only when autoSync is on.
runtimeCallback_underAutoSync(s, snapshot, changedPaths) ==
  IF s.isDisposed THEN s
  ELSE IF autoSync
       THEN LET s1 == schedulePush(s, changedPaths)
            IN notifyListeners(s1, s1.listeners, snapshot, changedPaths)
       ELSE s

\* The callback that schedules a push whatever autoSync says.
runtimeCallback_alwaysPush(s, snapshot, changedPaths) ==
  IF s.isDisposed THEN s
  ELSE LET s1 == schedulePush(s, changedPaths)
       IN notifyListeners(s1, s1.listeners, snapshot, changedPaths)

\* The callback without its isDisposed guard.
runtimeCallback_noGuard(s, snapshot, changedPaths) ==
  LET s1 == IF autoSync THEN schedulePush(s, changedPaths) ELSE s
  IN notifyListeners(s1, s1.listeners, snapshot, changedPaths)

\* The callback that invokes the listeners before it schedules the push.
runtimeCallback_listenersFirst(s, snapshot, changedPaths) ==
  IF s.isDisposed THEN s
  ELSE LET s1 == notifyListeners(s, s.listeners, snapshot, changedPaths)
       IN IF autoSync THEN schedulePush(s1, changedPaths) ELSE s1

\* The callback given to runtime.subscribe.
runtimeCallback(s, snapshot, changedPaths) ==
  IF s.isDisposed THEN s
  ELSE LET s1 == IF autoSync THEN schedulePush(s, changedPaths) ELSE s
       IN notifyListeners(s1, s1.listeners, snapshot, changedPaths)

\* The runtime announces a change: to the callback createBridge subscribed, if
\* it subscribed one.
runtimeNotify(s, changedPaths) ==
  LET wired == pushWiring
      s1 == [s EXCEPT !.notified =
               Append(@, [snapshot |-> s.rt, changedPaths |-> changedPaths,
                          wired |-> wired, disposed |-> s.isDisposed,
                          listeners |-> s.listeners])]
  IN IF wired THEN runtimeCallback(s1, s.rt, changedPaths) ELSE s1

\* Paths whose value changes when path is written: itself and what derives from it.
changedBy(path) == IF path = da THEN {da, dd} ELSE {path}

\* What runtime.set(path, value) does when it answers out: a rejected or
\* unchanged write notifies nobody.  ret is the Result it returns.
runtimeSet(s, path, value, out) ==
  IF out = "throw" THEN [s EXCEPT !.threw = "runtime", !.raised = TRUE]
  ELSE IF out = "invalid" \/ path \notin StoredPaths \/ value \notin StoreValues
  THEN [s EXCEPT !.ret = "invalid", !.retPath = path]
  ELSE IF s.rt[path] = value THEN [s EXCEPT !.ret = "ok"]
  ELSE runtimeNotify([s EXCEPT !.rt[path] = value, !.ret = "ok"], changedBy(path))

\* What runtime.setMany(updates) does: all or nothing, one notification.
\* ep is the path of the failure it reports.
runtimeSetMany(s, updates, out, ep) ==
  LET changed == {p \in DOMAIN updates : s.rt[p] # updates[p]} IN
  IF out = "throw" THEN [s EXCEPT !.threw = "runtime", !.raised = TRUE]
  ELSE IF out = "invalid" THEN [s EXCEPT !.ret = "invalid", !.retPath = ep]
  ELSE IF changed = {} THEN [s EXCEPT !.ret = "ok"]
  ELSE runtimeNotify(
         [s EXCEPT !.ret = "ok",
                   !.rt = [q \in DOMAIN @ |->
                             IF q \in DOMAIN updates THEN updates[q] ELSE @[q]]],
         UNION {changedBy(p) : p \in changed})

\* The pull loop that stops at the first validation failure.
RECURSIVE pullLoop_stopOnInvalid(_, _, _)
pullLoop_stopOnInvalid(s, seq, outs) ==
  IF seq = <<>> \/ s.threw # "none" \/ s.ret = "invalid" THEN s
  ELSE LET path == Head(seq)
           m == IF startsWith(path, "state") THEN "getState" ELSE "getData"
           value == adapterValue(s, path)
           s1 == Call(s, "adapter", m, path :> value)
           s2 == Call(s1, "runtime", "set", path :> value)
       IN pullLoop_stopOnInvalid(runtimeSet(s2, path, value, outs[path]),
                                 Tail(seq), outs)

\* The callback given to adapter.subscribe: the pull loop over changedPaths.
\* outs[path] is what runtime.set answers for that path.
RECURSIVE pullLoop(_, _, _)
pullLoop(s, seq, outs) ==
  IF seq = <<>> \/ s.threw # "none" THEN s
  ELSE LET path == Head(seq)
           m == IF startsWith(path, "state") THEN "getState" ELSE "getData"
           value == adapterValue(s, path)
           s1 == Call(s, "adapter", m, path :> value)
           s2 == Call(s1, "runtime", "set", path :> value)
       IN pullLoop(runtimeSet(s2, path, value, outs[path]), Tail(seq), outs)

\* The pull callback without its isDisposed guard.
adapterCallback_noGuard(s, changedPaths, outs) ==
  pullLoop(s, InOrder(changedPaths, 1), outs)

adapterCallback(s, changedPaths, outs) ==
  IF s.isDisposed THEN s
  ELSE pullLoop(s, InOrder(changedPaths, 1), outs)

\* The Adapter announces a change: to the callback createBridge subscribed, if
\* it subscribed one.
adapterNotify(s, changedPaths, outs) ==
  IF pullWiring THEN adapterCallback(s, changedPaths, outs) ELSE s

\* ------------------------------------------------- on a reactive store
\* An external store that normalizes what is written to it and reports a
\* change to the Adapter's subscribers at once, before the Actuator call
\* returns (a Zustand store, a form).  The runtime accepts what the bridge
\* then pulls.  The pull can write back only what the store already holds, so
\* the calls below the notification are Actuator calls that change nothing
\* and report nothing.
reactiveActuatorWrite(s, m, upd) ==
  LET held == [q \in DOMAIN upd |-> Normal(upd[q])]
      changed == {q \in DOMAIN upd \cap DOMAIN s.ext : s.ext[q] # held[q]}
      s1 == [Call(s, "actuator", m, upd) EXCEPT
               !.ext = [q \in DOMAIN @ |->
                          IF q \in DOMAIN upd THEN held[q] ELSE @[q]]]
  IN IF changed # {}
     THEN adapterNotify(s1, changed, [q \in changed |-> "ok"])
     ELSE s1

\* The push path of the bridge, from runtime.set down to the Actuator, with
\* the Actuator writing to the reactive store.
RECURSIVE reactiveScalarWrites(_, _, _)
reactiveScalarWrites(s, m, seq) ==
  IF seq = <<>> THEN s
  ELSE LET p == Head(seq)
           s1 == runtimeGet(s, p)
       IN reactiveScalarWrites(
            reactiveActuatorWrite(s1, m, p :> runtimeValue(s1, p)), m, Tail(seq))

reactiveBatchedWrite(s, m, paths) ==
  LET s1 == readUpdates(s, InOrder(paths, 1))
  IN reactiveActuatorWrite(s1, m, [p \in paths |-> runtimeValue(s1, p)])

reactivePushToExternal(s, paths) ==
  LET statePaths == {p \in paths : startsWith(p, "state")}
      dataPaths == {p \in paths : ~startsWith(p, "state") /\ startsWith(p, "data")}
      s1 == IF dataPaths = {} THEN s
            ELSE IF hasSetManyData
                 THEN reactiveBatchedWrite(s, "setManyData", dataPaths)
                 ELSE reactiveScalarWrites(s, "setData", InOrder(dataPaths, 1))
      s2 == IF statePaths = {} THEN s1
            ELSE IF hasSetManyState
                 THEN reactiveBatchedWrite(s1, "setManyState", statePaths)
                 ELSE reactiveScalarWrites(s1, "setState", InOrder(statePaths, 1))
  IN pushLog(s, s2, paths)

reactiveFlushPush(s) ==
  IF s.isDisposed THEN s
  ELSE [reactivePushToExternal(flushStart(s), s.pendingPaths)
          EXCEPT !.flushing = @ - 1]

reactiveSchedulePush(s, paths) ==
  LET s1 == [s EXCEPT !.pendingPaths = @ \cup paths,
                      !.readded = @ \cup (s.pendingPaths \cap paths \cap Tracked),
                      !.elapsed = 0, !.scheduled = @ + 1]
  IN IF debounceMs > 0
     THEN setTimeout(IF s1.syncTimeoutId # Null
                     THEN clearTimeout(s1, s1.syncTimeoutId) ELSE s1)
     ELSE reactiveFlushPush(s1)

reactiveRuntimeCallback(s, snapshot, changedPaths) ==
  IF s.isDisposed THEN s
  ELSE LET s1 == IF autoSync THEN reactiveSchedulePush(s, changedPaths) ELSE s
       IN notifyListeners(s1, s1.listeners, snapshot, changedPaths)

reactiveRuntimeNotify(s, changedPaths) ==
  LET wired == pushWiring
      s1 == [s EXCEPT !.notified =
               Append(@, [snapshot |-> s.rt, changedPaths |-> changedPaths,
                          wired |-> wired, disposed |-> s.isDisposed,
                          listeners |-> s.listeners])]
  IN IF wired THEN reactiveRuntimeCallback(s1, s.rt, changedPaths) ELSE s1

reactiveRuntimeSet(s, path, value, out) ==
  IF out = "throw" THEN [s EXCEPT !.threw = "runtime", !.raised = TRUE]
  ELSE IF out = "invalid" \/ path \notin StoredPaths \/ value \notin StoreValues
  THEN [s EXCEPT !.ret = "invalid", !.retPath = path]
  ELSE IF s.rt[path] = value THEN [s EXCEPT !.ret = "ok"]
  ELSE reactiveRuntimeNotify([s EXCEPT !.rt[path] = value, !.ret = "ok"],
                             changedBy(path))

\* ------------------------------------------------ with a failing Actuator
\* An Actuator whose write throws when the step's input says so (a form that
\* rejects a field name, a store setter that throws).  The exception leaves
\* pushToExternal, flushPush and schedulePush, none of which has a try/catch.
faultyActuatorWrite(s, m, upd) ==
  IF s.input = "throw"
  THEN [Call(s, "actuator", m, upd) EXCEPT !.threw = "actuator"]
  ELSE actuatorWrite(s, m, upd)

RECURSIVE faultyScalarWrites(_, _, _)
faultyScalarWrites(s, m, seq) ==
  IF seq = <<>> \/ s.threw # "none" THEN s
  ELSE LET p == Head(seq)
           s1 == runtimeGet(s, p)
       IN faultyScalarWrites(
            faultyActuatorWrite(s1, m, p :> runtimeValue(s1, p)), m, Tail(seq))

faultyBatchedWrite(s, m, paths) ==
  LET s1 == readUpdates(s, InOrder(paths, 1))
  IN faultyActuatorWrite(s1, m, [p \in paths |-> runtimeValue(s1, p)])

faultyPushToExternal(s, paths) ==
  LET statePaths == {p \in paths : startsWith(p, "state")}
      dataPaths == {p \in paths : ~startsWith(p, "state") /\ startsWith(p, "data")}
      s1 == IF dataPaths = {} THEN s
            ELSE IF hasSetManyData
                 THEN faultyBatchedWrite(s, "setManyData", dataPaths)
                 ELSE faultyScalarWrites(s, "setData", InOrder(dataPaths, 1))
      s2 == IF statePaths = {} \/ s1.threw # "none" THEN s1
            ELSE IF hasSetManyState
                 THEN faultyBatchedWrite(s1, "setManyState", statePaths)
                 ELSE faultyScalarWrites(s1, "setState", InOrder(statePaths, 1))
  IN pushLog(s, s2, paths)

faultyFlushPush(s) ==
  IF s.isDisposed THEN s
  ELSE [faultyPushToExternal(flushStart(s), s.pendingPaths)
          EXCEPT !.flushing = @ - 1]

faultySchedulePush(s, paths) ==
  LET s1 == [s EXCEPT !.pendingPaths = @ \cup paths,
                      !.readded = @ \cup (s.pendingPaths \cap paths \cap Tracked),
                      !.elapsed = 0, !.scheduled = @ + 1]
  IN IF debounceMs > 0
     THEN setTimeout(IF s1.syncTimeoutId # Null
                     THEN clearTimeout(s1, s1.syncTimeoutId) ELSE s1)
     ELSE faultyFlushPush(s1)

\* The callback given to runtime.subscribe: an exception of schedulePush
\* leaves it before the listener loop.
faultyRuntimeCallback(s, snapshot, changedPaths) ==
  IF s.isDisposed THEN s
  ELSE LET s1 == IF autoSync THEN faultySchedulePush(s, changedPaths) ELSE s
       IN IF s1.threw # "none" THEN s1
          ELSE notifyListeners(s1, s1.listeners, snapshot, changedPaths)

faultyRuntimeNotify(s, changedPaths) ==
  LET wired == pushWiring
      s1 == [s EXCEPT !.notified =
               Append(@, [snapshot |-> s.rt, changedPaths |-> changedPaths,
                          wired |-> wired, disposed |-> s.isDisposed,
                          listeners |-> s.listeners])]
  IN IF wired THEN faultyRuntimeCallback(s1, s.rt, changedPaths) ELSE s1

faultyRuntimeSet(s, path, value, out) ==
  IF out = "invalid" \/ path \notin StoredPaths \/ value \notin StoreValues
  THEN [s EXCEPT !.ret = "invalid", !.retPath = path]
  ELSE IF s.rt[path] = value THEN [s EXCEPT !.ret = "ok"]
  ELSE faultyRuntimeNotify([s EXCEPT !.rt[path] = value, !.ret = "ok"],
                           changedBy(path))

\* ------------------------------------------------- one change, step by step
\* The reactive store takes an Actuator write of value to path: it keeps the
\* value normalized and tells the Adapter's subscribers when the value it
\* holds changed, or on every write when it is a store that echoes (a form
\* whose watch callback fires on every setValue).
storeWrite(store, path, value, echo) ==
  LET held == Normal(value)
  IN [ext |-> [store EXCEPT ![path] = held],
      notifies |-> echo \/ store[path] # held]

\* A runtime that announces every accepted set, changed or not.
cycleRuntimeSet_alwaysNotifies(values, path, value, out) ==
  IF out = "invalid" \/ path \notin StoredPaths \/ value \notin StoreValues
  THEN [rt |-> values, notifies |-> FALSE]
  ELSE [rt |-> [values EXCEPT ![path] = value], notifies |-> TRUE]

\* runtime.set(path, value) answering out: a rejected or unchanged set
\* announces nothing.
cycleRuntimeSet(values, path, value, out) ==
  IF out = "invalid" \/ path \notin StoredPaths \/ value \notin StoreValues
  THEN [rt |-> values, notifies |-> FALSE]
  ELSE [rt |-> [values EXCEPT ![path] = value],
        notifies |-> values[path] # value]

\* The callback given to adapter.subscribe, for one changed path: it reads the
\* Adapter and sets the runtime.
cyclePull(values, store, path, out) ==
  IF isDisposed \/ ~pullWiring THEN [rt |-> values, notifies |-> FALSE]
  ELSE cycleRuntimeSet(values, path, adapterValue([ext |-> store], path), out)

\* The callback given to runtime.subscribe, for the change of one stored
\* path, with debounceMs = 0: schedulePush, flushPush, pushToExternal and the
\* Actuator write of the path's current value.
cyclePush(values, store, path, echo) ==
  IF isDisposed \/ ~pushWiring \/ ~autoSync \/ debounceMs > 0
     \/ ~(startsWith(path, "state") \/ startsWith(path, "data"))
  THEN [ext |-> store, notifies |-> FALSE]
  ELSE storeWrite(store, path, runtimeValue([rt |-> values], path), echo)

\* --------------------------------------------------------- Bridge methods
\* assertNotDisposed without its check.
assertNotDisposed_unchecked(s) == s

assertNotDisposed(s) ==
  IF s.isDisposed THEN [s EXCEPT !.threw = "Bridge is disposed"] ELSE s

\* capture that throws when setMany reports a validation failure.
capture_throwOnInvalid(s, out, ep) ==
  LET a == assertNotDisposed(s) IN
  IF a.threw # "none" THEN a
  ELSE LET dataRecords == [p \in DataPaths |-> a.ext[p]]
           stateRecords == [p \in StatePaths |-> a.ext[p]]
           s1 == Call(a, "adapter", "captureData", dataRecords)
           s2 == Call(s1, "adapter", "captureState", stateRecords)
           allUpdates == stateRecords @@ dataRecords
           s3 == runtimeSetMany(Call(s2, "runtime", "setMany", allUpdates),
                           allUpdates, out, ep)
       IN IF s3.threw # "none" THEN s3
          ELSE IF s3.ret # "ok" THEN [s3 EXCEPT !.threw = "validation"]
          ELSE Call(s3, "runtime", "getSnapshot", EmptyMap)

\* allUpdates is { ...dataRecords, ...stateRecords }: on a shared key the state
\* record wins.
capture(s, out, ep) ==
  LET a == assertNotDisposed(s) IN
  IF a.threw # "none" THEN a
  ELSE LET dataRecords == [p \in DataPaths |-> a.ext[p]]
           stateRecords == [p \in StatePaths |-> a.ext[p]]
           s1 == Call(a, "adapter", "captureData", dataRecords)
           s2 == Call(s1, "adapter", "captureState", stateRecords)
           allUpdates == stateRecords @@ dataRecords
           s3 == runtimeSetMany(Call(s2, "runtime", "setMany", allUpdates),
                           allUpdates, out, ep)
       IN IF s3.threw # "none" THEN s3
          ELSE Call(s3, "runtime", "getSnapshot", EmptyMap)

\* execute without its try/catch.
executeCatch_absent(s) == s

\* catch (e) { return err(bridgeError('EXECUTION_ERROR', ...)) }
executeCatch(s) ==
  IF s.threw = "none" THEN s
  ELSE [s EXCEPT !.threw = "none", !.result = "EXECUTION_ERROR",
                 !.errPath = NoPath, !.cause = "exception"]

\* execute whose SET_MANY failure carries the first path of the updates, not
\* the path the runtime reported.
execute_firstPath(s, command, out, ep) ==
  IF s.isDisposed THEN [s EXCEPT !.result = "DISPOSED_ERROR"]
  ELSE IF command.type = "SET_VALUE" THEN
    LET s1 == runtimeSet(Call(s, "runtime", "set", command.path :> command.value),
                    command.path, command.value, out)
    IN executeCatch(
         IF s1.threw # "none" THEN s1
         ELSE IF s1.ret # "ok"
         THEN [s1 EXCEPT !.result = "VALIDATION_ERROR", !.errPath = command.path]
         ELSE [s1 EXCEPT !.result = "ok"])
  ELSE IF command.type = "SET_MANY" THEN
    LET s1 == runtimeSetMany(Call(s, "runtime", "setMany", command.updates),
                        command.updates, out, ep)
    IN executeCatch(
         IF s1.threw # "none" THEN s1
         ELSE IF s1.ret # "ok"
         THEN [s1 EXCEPT !.result = "VALIDATION_ERROR",
                         !.errPath = InOrder(DOMAIN command.updates, 1)[1]]
         ELSE [s1 EXCEPT !.result = "ok"])
  ELSE IF command.type = "EXECUTE_ACTION" THEN
    LET s1 == Call(s, "runtime", "execute", EmptyMap) IN
    IF out = "throw" THEN executeCatch([s1 EXCEPT !.threw = "runtime", !.raised = TRUE])
    ELSE [s1 EXCEPT !.inflight = @ + 1, !.result = "pending"]
  ELSE [s EXCEPT !.result = "EXECUTION_ERROR", !.cause = "unknown command"]

\* execute(command) up to its return or its await.  out and ep are the
\* runtime's answer to the call the command makes.
execute(s, command, out, ep) ==
  IF s.isDisposed THEN [s EXCEPT !.result = "DISPOSED_ERROR"]
  ELSE IF command.type = "SET_VALUE" THEN
    LET s1 == runtimeSet(Call(s, "runtime", "set", command.path :> command.value),
                    command.path, command.value, out)
    IN executeCatch(
         IF s1.threw # "none" THEN s1
         ELSE IF s1.ret # "ok"
         THEN [s1 EXCEPT !.result = "VALIDATION_ERROR", !.errPath = command.path]
         ELSE [s1 EXCEPT !.result = "ok"])
  ELSE IF command.type = "SET_MANY" THEN
    LET s1 == runtimeSetMany(Call(s, "runtime", "setMany", command.updates),
                        command.updates, out, ep)
    IN executeCatch(
         IF s1.threw # "none" THEN s1
         ELSE IF s1.ret # "ok"
         THEN [s1 EXCEPT !.result = "VALIDATION_ERROR", !.errPath = s1.retPath]
         ELSE [s1 EXCEPT !.result = "ok"])
  ELSE IF command.type = "EXECUTE_ACTION" THEN
    LET s1 == Call(s, "runtime", "execute", EmptyMap) IN
    IF out = "throw" THEN executeCatch([s1 EXCEPT !.threw = "runtime", !.raised = TRUE])
    ELSE [s1 EXCEPT !.inflight = @ + 1, !.result = "pending"]
  ELSE [s EXCEPT !.result = "EXECUTION_ERROR", !.cause = "unknown command"]

\* executeResume that checks isDisposed again after the await.
executeResume_recheck(s, outcome) ==
  LET s1 == [s EXCEPT !.inflight = @ - 1] IN
  IF s1.isDisposed THEN [s1 EXCEPT !.result = "DISPOSED_ERROR"]
  ELSE IF outcome = "reject"
  THEN executeCatch([s1 EXCEPT !.threw = "runtime", !.raised = TRUE])
  ELSE IF outcome = "fail"
  THEN [s1 EXCEPT !.result = "EXECUTION_ERROR", !.cause = "runtime cause"]
  ELSE [s1 EXCEPT !.result = "ok"]

\* executeResume that reports a failed action as a validation failure.
executeResume_asValidation(s, outcome) ==
  LET s1 == [s EXCEPT !.inflight = @ - 1] IN
  IF outcome = "reject"
  THEN executeCatch([s1 EXCEPT !.threw = "runtime", !.raised = TRUE])
  ELSE IF outcome = "fail"
  THEN [s1 EXCEPT !.result = "VALIDATION_ERROR"]
  ELSE [s1 EXCEPT !.result = "ok"]

\* execute(EXECUTE_ACTION) after the await: the runtime's promise settled with
\* outcome ok, fail (a Result that is not ok) or reject.
executeResume(s, outcome) ==
  LET s1 == [s EXCEPT !.inflight = @ - 1] IN
  IF outcome = "reject"
  THEN executeCatch([s1 EXCEPT !.threw = "runtime", !.raised = TRUE])
  ELSE IF outcome = "fail"
  THEN [s1 EXCEPT !.result = "EXECUTION_ERROR", !.cause = "runtime cause"]
  ELSE [s1 EXCEPT !.result = "ok"]

\* sync that pushes the pending paths only.
sync_pendingOnly(s) ==
  LET a == assertNotDisposed(s) IN
  IF a.threw # "none" THEN a
  ELSE LET s1 == IF a.syncTimeoutId # Null
                 THEN [clearTimeout(a, a.syncTimeoutId) EXCEPT !.syncTimeoutId = Null]
                 ELSE a
           s2 == Call(s1, "runtime", "getSnapshot", EmptyMap)
       IN pushToExternal(s2, s2.pendingPaths)

sync(s) ==
  LET a == assertNotDisposed(s) IN
  IF a.threw # "none" THEN a
  ELSE LET s1 == IF a.syncTimeoutId # Null
                 THEN [clearTimeout(a, a.syncTimeoutId) EXCEPT !.syncTimeoutId = Null]
                 ELSE a
           s2 == Call(s1, "runtime", "getSnapshot", EmptyMap)
       IN pushToExternal(s2, snapshotPaths(s2))

\* dispose without its early return, keeping the two unsubscribe functions.
dispose_unguarded(s) ==
  LET s1 == [s EXCEPT !.isDisposed = TRUE]
      s2 == IF s1.syncTimeoutId # Null
            THEN [clearTimeout(s1, s1.syncTimeoutId) EXCEPT !.syncTimeoutId = Null]
            ELSE s1
      s3 == IF s2.adapterUnsubscribe
            THEN Call(s2, "adapter", "unsubscribe", EmptyMap) ELSE s2
      s4 == IF s3.runtimeUnsubscribe
            THEN Call(s3, "runtime", "unsubscribe", EmptyMap) ELSE s3
  IN [s4 EXCEPT !.listeners = <<>>, !.pendingPaths = {}, !.readded = {}]

dispose(s) ==
  IF s.isDisposed THEN s
  ELSE LET s1 == [s EXCEPT !.isDisposed = TRUE]
           s2 == IF s1.syncTimeoutId # Null
                 THEN [clearTimeout(s1, s1.syncTimeoutId) EXCEPT !.syncTimeoutId = Null]
                 ELSE s1
           s3 == IF s2.adapterUnsubscribe
                 THEN Call(s2, "adapter", "unsubscribe", EmptyMap) ELSE s2
           s4 == IF s3.runtimeUnsubscribe
                 THEN Call(s3, "runtime", "unsubscribe", EmptyMap) ELSE s3
       IN [s4 EXCEPT !.adapterUnsubscribe = FALSE, !.runtimeUnsubscribe = FALSE,
                     !.listeners = <<>>, !.pendingPaths = {}, !.readded = {}]

get(s, path) ==
  LET a == assertNotDisposed(s) IN
  IF a.threw # "none" THEN a ELSE runtimeGet(a, path)

getFieldPolicy(s, path) ==
  LET a == assertNotDisposed(s) IN
  IF a.threw # "none" THEN a
  ELSE Call(a, "runtime", "getFieldPolicy", path :> Undefined)

\* preconditions.some((p) => p.satisfied)
RECURSIVE some(_)
some(preconditions) ==
  IF preconditions = <<>> THEN FALSE
  ELSE IF Head(preconditions) THEN TRUE ELSE some(Tail(preconditions))

\* preconditions.every((p) => p.satisfied)
RECURSIVE every(_)
every(preconditions) ==
  IF preconditions = <<>> THEN TRUE
  ELSE IF Head(preconditions) THEN every(Tail(preconditions)) ELSE FALSE

\* isActionAvailable that asks for some satisfied precondition.
isActionAvailable_some(s, preconditions) ==
  LET a == assertNotDisposed(s) IN
  IF a.threw # "none" THEN a
  ELSE [Call(a, "runtime", "getPreconditions", EmptyMap) EXCEPT
          !.result = IF some(preconditions) THEN "true" ELSE "false"]

\* isActionAvailable that asks the runtime before it checks isDisposed.
isActionAvailable_askFirst(s, preconditions) ==
  LET s1 == Call(s, "runtime", "getPreconditions", EmptyMap)
      a == assertNotDisposed(s1)
  IN IF a.threw # "none" THEN a
     ELSE [a EXCEPT !.result = IF every(preconditions) THEN "true" ELSE "false"]

\* preconditions is what runtime.getPreconditions(actionId) returns, as the
\* satisfied flag of each precondition.
isActionAvailable(s, preconditions) ==
  LET a == assertNotDisposed(s) IN
  IF a.threw # "none" THEN a
  ELSE [Call(a, "runtime", "getPreconditions", EmptyMap) EXCEPT
          !.result = IF every(preconditions) THEN "true" ELSE "false"]

subscribe(s, listener) ==
  LET a == assertNotDisposed(s) IN
  IF a.threw # "none" \/ listener \in Range(a.listeners) THEN a
  ELSE [a EXCEPT !.listeners = Append(@, listener)]

\* The closure that deletes the oldest listener, whichever it was made for.
unsubscribe_oldest(s, listener) == [s EXCEPT !.listeners = Tail(@)]

\* The closure subscribe returned.
unsubscribe(s, listener) ==
  [s EXCEPT !.listeners = SelectSeq(@, LAMBDA l : l # listener)]

\* ------------------------------------------------------------------ inputs
NoCommandFields ==
  [path |-> NoPath, value |-> Undefined, updates |-> EmptyMap]

\* The update maps SET_MANY is tried with.
UpdateMaps ==
  { (da :> "v1") @@ (db :> "v0"), (db :> "v0") @@ (ss :> "v1") }

Commands ==
  {[NoCommandFields EXCEPT !.path = p, !.value = v] @@ [type |-> "SET_VALUE"] :
     p \in {da, ss, dd}, v \in Values}
  \cup {[NoCommandFields EXCEPT !.updates = u] @@ [type |-> "SET_MANY"] :
          u \in UpdateMaps}
  \cup {NoCommandFields @@ [type |-> "EXECUTE_ACTION"]}
  \cup {NoCommandFields @@ [type |-> "UNKNOWN"]}

\* The batches of changed paths an Adapter reports.
Batches == {{da}, {da, ss}, {dd, ss}}

\* The answers runtime.set gives to the writes of one batch: at most one is not ok.
Answers(paths) ==
  {[p \in paths |-> IF p = q THEN o ELSE "ok"] : q \in paths, o \in Outcomes}

\* The precondition lists the runtime reports for an action.
PreconditionLists ==
  { <<>>, <<TRUE>>, <<FALSE>>, <<TRUE, TRUE>>, <<TRUE, FALSE>>, <<FALSE, TRUE>> }

\* ------------------------------------------------------ useManifestoBridge
\* What a component passes to the hook: the form, the runtime, the options.
HookProps == [form : {"f0", "f1"}, runtime : {"r0", "r1"}, debounceMs : {0, 1}]
NoDeps == [form |-> "none", runtime |-> "none", debounceMs |-> 0]

IdleHev == [op |-> "idle", bridge |-> 0, returned |-> 0, threw |-> "none"]

ClosureFields ==
  {"isDisposed", "syncTimeoutId", "pendingPaths", "listeners",
   "adapterUnsubscribe", "runtimeUnsubscribe"}

\* The closure state createBridge returns with.
createdBridge ==
  [ isDisposed |-> FALSE, syncTimeoutId |-> Null, pendingPaths |-> {},
    listeners |-> <<>>, adapterUnsubscribe |-> pullWiring,
    runtimeUnsubscribe |-> pushWiring ]

\* A method of bridge number b runs on its closure state.
OnBridge(b, op) == hookBridges[b] @@ Cur(op)

ClosureOf(r) == [f \in ClosureFields |-> r[f]]

\* useMemo(() => createBridge(...), [runtime, adapter, actuator, ...options]):
\* adapter and actuator are memoized on form, so a new bridge is created
\* exactly when form, runtime or an option differs from the last render.
useMemoBridge(bridges, deps, props) ==
  IF props = deps THEN bridges ELSE Append(bridges, createdBridge)

\* An effect that returns no cleanup.
effectCleanup_absent(bridges, ref) == bridges

\* The cleanup the effect returns: () => { bridgeRef.current.dispose() }.
\* ref is bridgeRef.current at the time the cleanup runs.
effectCleanup(bridges, ref) ==
  [bridges EXCEPT ![ref] = ClosureOf(dispose(bridges[ref] @@ Cur("cleanup")))]

\* --------------------------------------------------- the reactive adapters
\* bridge-zustand/src/index.ts and the React Hook Form package.  The store
\* has one key the dataSelector selects, one the stateSelector selects, and
\* one that no selector reads.
ZDataKeys == {"a"}
ZStateKeys == {"s"}
ZStoreKeys == {"a", "s", "o"}
\* Object.keys order of the selected objects.
ZKeyOrder == <<"a", "s">>

\* A field name of form.watch's callback: absent, empty, or a field.
FieldNames == {Undefined, "", "a"}

IdleAev ==
  [op |-> "idle", key |-> Undefined, listener |-> Undefined, sub |-> 0,
   changed |-> {}, invoked |-> <<>>, hadListeners |-> {}]

\* options.dataSelector and options.stateSelector applied to a store state;
\* without a stateSelector the selected state is undefined (no keys).
dataSelector(state) == [k \in ZDataKeys |-> state[k]]
stateSelector(state) ==
  IF hasStateSelector THEN [k \in ZStateKeys |-> state[k]] ELSE EmptyMap

\* The keys of the new selection whose value differs from the previous one
\* (oldVal !== newVal), in Object.keys order, under the namespace ns.
changedKeys(ns, prev, new) ==
  LET keys == SelectSeq(ZKeyOrder,
                        LAMBDA k : /\ k \in DOMAIN new
                                   /\ (k \notin DOMAIN prev \/ prev[k] # new[k]))
  IN [i \in 1..Len(keys) |-> <<ns, keys[i]>>]

\* for (const l of listeners) l(paths): the invocations, in order.
invokeAll(lsn, paths, from) ==
  [i \in 1..Len(lsn) |-> [listener |-> lsn[i], paths |-> paths, sub |-> from]]

\* The callback without the changedPaths.length > 0 test.
storeCallback_unguarded(sub, k, lsn, state) ==
  LET newData == dataSelector(state)
      newState == stateSelector(state)
      changedPaths == changedKeys("data", sub.prevData, newData)
                      \o (IF hasStateSelector
                          THEN changedKeys("state", sub.prevState, newState)
                          ELSE <<>>)
  IN [sub |-> [sub EXCEPT !.prevData = newData, !.prevState = newState],
      invoked |-> invokeAll(lsn, changedPaths, k)]

\* The callback subscribe call k gave to api.subscribe, run on a new store
\* state: the subscription's entry afterwards and the listener invocations.
storeCallback(sub, k, lsn, state) ==
  LET newData == dataSelector(state)
      newState == stateSelector(state)
      changedPaths == changedKeys("data", sub.prevData, newData)
                      \o (IF hasStateSelector
                          THEN changedKeys("state", sub.prevState, newState)
                          ELSE <<>>)
  IN [sub |-> [sub EXCEPT !.prevData = newData, !.prevState = newState],
      invoked |-> IF Len(changedPaths) > 0
                  THEN invokeAll(lsn, changedPaths, k) ELSE <<>>]

\* The store runs the callbacks of its installed subscriptions in the order
\* they subscribed, from subscription k on.
RECURSIVE storeNotify(_, _, _, _)
storeNotify(subs, k, lsn, state) ==
  IF k > Len(subs) THEN [subs |-> subs, invoked |-> <<>>]
  ELSE IF ~subs[k].live THEN storeNotify(subs, k + 1, lsn, state)
  ELSE LET one == storeCallback(subs[k], k, lsn, state)
           rest == storeNotify([subs EXCEPT ![k] = one.sub], k + 1, lsn, state)
       IN [subs |-> rest.subs, invoked |-> one.invoked \o rest.invoked]

\* Set.add and Set.delete on an insertion-ordered Set.
setAdd(set, x) == IF x \in Range(set) THEN set ELSE Append(set, x)
setDelete(set, x) == SelectSeq(set, LAMBDA y : y # x)

\* createZustandAdapter(...).subscribe(listener).
zustandSubscribe(subs, lsn, state, listener) ==
  [listeners |-> setAdd(lsn, listener),
   subs |-> Append(subs, [listener |-> listener,
                          prevData |-> dataSelector(state),
                          prevState |-> stateSelector(state),
                          live |-> TRUE])]

\* The closure subscribe call k returned.
zustandUnsubscribe(subs, lsn, k) ==
  LET left == setDelete(lsn, subs[k].listener)
  IN [listeners |-> left,
      subs |-> IF Len(left) = 0 THEN [subs EXCEPT ![k].live = FALSE] ELSE subs]

\* The callback given to form.watch without the test of name.
watchCallback_unguarded(lsn, name) ==
  invokeAll(lsn, <<<<"data", name>>>>, 1)

\* The callback createReactHookFormAdapter gives to form.watch.
watchCallback(lsn, name) ==
  IF name \notin {Undefined, ""}
  THEN invokeAll(lsn, <<<<"data", name>>>>, 1)
  ELSE <<>>

\* ------------------------------------------------------ the path utilities
\* A JavaScript value is the set of its nodes: the path of keys from the root
\* and what is there ("object", "array", "null", "undefined", or a number).
UndefinedValue == {<<<<>>, "undefined">>}

IdleCev ==
  [op |-> "idle", path |-> <<>>, segments |-> <<>>, root |-> UndefinedValue,
   value |-> UndefinedValue, after |-> UndefinedValue, parsed |-> <<>>,
   flat |-> {}, threw |-> FALSE]

NullValue == {<<<<>>, "null">>}
EmptyObject == {<<<<>>, "object">>}
EmptyArray == {<<<<>>, "array">>}
\* The numbers 1 and 2: primitives without own properties.
One == {<<<<>>, "1">>}
Two == {<<<<>>, "2">>}

\* A string is the sequence of its characters, so that scanning it, testing
\* it for digits and concatenating it are computed as the code does.
Digits == {"0"}
Chars == {"a", "0", ".", "[", "]", "'", "\""}

kindOf(x) == (CHOOSE n \in x : n[1] = <<>>)[2]
isNullish(x) == kindOf(x) \in {"null", "undefined"}
\* typeof x === 'object' && x !== null: a plain object or an array.
isContainer(x) == kindOf(x) \in {"object", "array"}

Graft(prefix, x) == {<<prefix \o n[1], n[2]>> : n \in x}

\* current[segment], read on a value that is neither null nor undefined.
property(x, key) ==
  LET sub == {<<Tail(n[1]), n[2]>> :
                n \in {m \in x : Len(m[1]) > 0 /\ Head(m[1]) = key}}
  IN IF isContainer(x) /\ sub # {} THEN sub ELSE UndefinedValue

\* current[segment] = value, on a plain object or an array.
assign(x, key, value) ==
  {n \in x : Len(n[1]) = 0 \/ Head(n[1]) # key} \cup Graft(<<key>>, value)

\* Object.keys.
ownKeys(x) == {n[1][1] : n \in {m \in x : Len(m[1]) = 1}}

\* /^\d+$/.test(segment)
allDigits(segment) ==
  Len(segment) > 0 /\ \A i \in 1..Len(segment) : segment[i] \in Digits

\* parsePath's loop from character i on.
RECURSIVE scanPath(_, _, _, _, _, _)
scanPath(path, i, result, current, inBracket, bracketQuote) ==
  LET push == IF current # <<>> THEN Append(result, current) ELSE result
  IN IF i > Len(path) THEN push
     ELSE LET char == path[i]
          IN IF inBracket
             THEN IF bracketQuote # Null
                  THEN IF char = bracketQuote
                       THEN scanPath(path, i + 1, result, current, TRUE, Null)
                       ELSE scanPath(path, i + 1, result, Append(current, char),
                                     TRUE, bracketQuote)
                  ELSE IF char = "]"
                       THEN scanPath(path, i + 1, push, <<>>, FALSE, Null)
                       ELSE IF char \in {"\"", "'"}
                            THEN scanPath(path, i + 1, result, current, TRUE,
                                          char)
                            ELSE scanPath(path, i + 1, result,
                                          Append(current, char), TRUE, Null)
             ELSE IF char = "."
                  THEN scanPath(path, i + 1, push, <<>>, FALSE, Null)
                  ELSE IF char = "["
                       THEN scanPath(path, i + 1, push, <<>>, TRUE, Null)
                       ELSE scanPath(path, i + 1, result, Append(current, char),
                                     FALSE, Null)

parsePath(path) ==
  IF Len(path) = 0 THEN <<>> ELSE scanPath(path, 1, <<>>, <<>>, FALSE, Null)

RECURSIVE getNestedValue(_, _)
getNestedValue(obj, segments) ==
  IF Len(segments) = 0 THEN obj
  ELSE IF isNullish(obj) THEN UndefinedValue
  ELSE getNestedValue(property(obj, Head(segments)), Tail(segments))

\* setNestedValue's loop and final assignment, from the value `current` on.
\* The file is an ES module, so its code is strict: reading a property of
\* null or undefined throws a TypeError, and so does assigning a property on
\* a primitive.  The answer is the value after the call and whether it threw.
RECURSIVE setNestedFrom(_, _, _)
setNestedFrom(current, segments, value) ==
  IF ~isContainer(current) THEN [obj |-> current, threw |-> TRUE]
  ELSE IF Len(segments) = 1
  THEN [obj |-> assign(current, segments[1], value), threw |-> FALSE]
  ELSE LET segment == segments[1]
           child == property(current, segment)
           made == IF isNullish(child)
                   THEN (IF allDigits(segments[2]) THEN EmptyArray
                         ELSE EmptyObject)
                   ELSE child
           inner == setNestedFrom(made, Tail(segments), value)
       IN [obj |-> assign(current, segment, inner.obj), threw |-> inner.threw]

setNestedValue(obj, segments, value) ==
  IF Len(segments) = 0 THEN [obj |-> obj, threw |-> FALSE]
  ELSE setNestedFrom(obj, segments, value)

\* flattenObject without the Array.isArray tests: an array is expanded like
\* an object.
RECURSIVE flattenObject_expandArrays(_, _)
flattenObject_expandArrays(obj, prefix) ==
  IF isNullish(obj) THEN {}
  ELSE IF ~isContainer(obj) THEN {<<prefix, obj>>}
  ELSE UNION {LET value == property(obj, key)
                  fullPath == prefix \o <<".">> \o key
              IN IF isContainer(value)
                 THEN flattenObject_expandArrays(value, fullPath)
                 ELSE {<<fullPath, value>>} : key \in ownKeys(obj)}

\* The mapping is the set of its <<key, value>> entries; keys without a "."
\* never collide, so Object.assign never overwrites an entry.
RECURSIVE flattenObject(_, _)
flattenObject(obj, prefix) ==
  IF isNullish(obj) THEN {}
  ELSE IF ~isContainer(obj) THEN {<<prefix, obj>>}
  ELSE IF kindOf(obj) = "array" THEN {<<prefix, obj>>}
  ELSE UNION {LET value == property(obj, key)
                  fullPath == prefix \o <<".">> \o key
              IN IF kindOf(value) = "object"
                 THEN flattenObject(value, fullPath)
                 ELSE {<<fullPath, value>>} : key \in ownKeys(obj)}

\* The arguments the utilities are called with.
PathStrings == UNION {[1..n -> Chars] : n \in 0..MaxPathLen}
Keys == {<<"a">>, <<"b">>, <<"0">>}
SegmentSeqs == UNION {[1..n -> Keys] : n \in 0..MaxSegments}
Flat == {UndefinedValue, NullValue, One, EmptyObject, EmptyArray}
Nested ==
  Flat \cup {assign(EmptyObject, <<"a">>, x) : x \in Flat}
       \cup {assign(assign(EmptyObject, <<"a">>, x), <<"b">>, y) :
               x \in Flat, y \in {NullValue, One, EmptyArray}}
       \cup {assign(EmptyArray, <<"0">>, x) : x \in Flat}
Roots == Nested \cup {assign(EmptyObject, <<"a">>, x) : x \in Nested}
NewValues == {UndefinedValue, NullValue, Two, assign(EmptyObject, <<"b">>, One)}
Prefixes == {<<"d">>}

\* -------------------------------------------------------------------- Init
\* No change is on its way.
AtRest == [phase |-> "quiescent", path |-> NoPath, hops |-> 0, echo |-> FALSE]

\* createBridge(config): the state after the factory returns.
\* Options nothing reads in a mode keep one value there: autoSync and
\* debounceMs are read by the runtime callback only, which pull mode does not
\* install, and adapter.subscribe is looked for in the other two modes only.
InitBridge ==
  /\ syncMode \in {"push", "pull", "bidirectional"}
  /\ autoSync \in BOOLEAN
  /\ debounceMs \in {0, MaxDebounce}
  /\ hasSetManyData \in BOOLEAN
  /\ hasSetManyState \in BOOLEAN
  /\ adapterHasSubscribe \in BOOLEAN
  /\ syncMode = "pull" => autoSync /\ debounceMs = 0
  /\ syncMode = "push" => adapterHasSubscribe
  /\ keepsClosures \in BOOLEAN
  /\ keepsClosures =>
       /\ syncMode = "push" /\ ~autoSync /\ debounceMs = 0
       /\ hasSetManyData /\ hasSetManyState
  /\ called = {}
  /\ isDisposed = FALSE
  /\ syncTimeoutId = Null
  /\ pendingPaths = {}
  /\ listeners = <<>>
  /\ adapterUnsubscribe = pullWiring
  /\ runtimeUnsubscribe = pushWiring
  /\ rt = [p \in StoredPaths |-> "v0"]
  /\ ext = [p \in StoredPaths |-> "v0"]
  /\ timers = EmptyMap
  /\ inflight = 0
  /\ elapsed = debounceMs
  /\ readded = {}
  /\ ev = IdleEv
  /\ cycle = AtRest
  /\ hookPhase = "unmounted"
  /\ hookDeps = NoDeps
  /\ hookBridges = <<>>
  /\ bridgeRef = 0
  /\ effectBridge = 0
  /\ hev = IdleHev

\* No adapter of the two framework packages has a subscriber yet.
AdaptersAtRest ==
  /\ zStore = [k \in ZStoreKeys |-> "v0"]
  /\ zSubs = <<>>
  /\ zListeners = <<>>
  /\ watchSubscription = FALSE
  /\ rListeners = <<>>
  /\ rClosures = {}
  /\ aev = IdleAev

Init ==
  /\ InitBridge
  /\ adapterKind = "none"
  /\ hasStateSelector = FALSE
  /\ AdaptersAtRest
  /\ cev = IdleCev

\* ----------------------------------------------------------------- actions
\* The application (or a runtime action's effect) writes a runtime value.
RuntimeWrite ==
  /\ Idle
  /\ \E p \in StoredPaths : \E v \in ValuesOf(p) :
       /\ rt[p] # v
       /\ Install(runtimeSet(Cur("runtime write"), p, v, "ok"))

\* The user edits the external store; the Adapter reports nothing yet.
ExternalEdit ==
  /\ Idle
  /\ \E p \in EditedPaths : \E v \in ValuesOf(p) :
       /\ ext[p] # v
       /\ Install([Cur("external edit") EXCEPT !.ext[p] = v])

\* The Adapter reports a batch of changed paths to its subscribers.  Where
\* the bridge is not among them the runtime is not called and has no answer.
AdapterNotify ==
  /\ Idle
  /\ adapterHasSubscribe
  /\ \E paths \in Batches : \E outs \in Answers(paths) :
       /\ syncMode = "push" => outs = [p \in paths |-> "ok"]
       /\ Install(adapterNotify([Cur("adapter notification") EXCEPT
                                    !.batch = paths, !.answers = outs],
                                 paths, outs))

\* One tick of the clock.
Tick ==
  /\ Idle
  /\ debounceMs > 0
  /\ \E t \in DOMAIN timers : timers[t] > 0
  /\ Install([Cur("tick") EXCEPT
       !.timers = [t \in DOMAIN @ |-> IF @[t] > 0 THEN @[t] - 1 ELSE 0],
       !.elapsed = IF @ < debounceMs THEN @ + 1 ELSE @])

\* A timer whose delay has passed runs its callback, () => flushPush().
TimerFire ==
  /\ Idle
  /\ \E t \in DOMAIN timers :
       /\ timers[t] = 0
       /\ Install(flushPush(clearTimeout(Cur("timer"), t)))

Capture ==
  /\ Idle
  /\ \E out \in Outcomes, ep \in {da} :
       Install(capture([Cur("capture") EXCEPT !.input = out], out, ep))

Execute ==
  /\ Idle
  /\ \E command \in Commands, out \in Outcomes, ep \in StoredPaths :
       /\ command.type = "SET_VALUE" /\ out # "ok" => command.value = "v1"
       /\ command.type = "SET_VALUE" /\ out = "throw" => command.path = da
       /\ command.type = "SET_MANY" /\ out = "throw" => da \in DOMAIN command.updates
       /\ command.type = "SET_MANY" /\ out = "invalid" => ep \in DOMAIN command.updates
       /\ ~(command.type = "SET_MANY" /\ out = "invalid") => ep = da
       /\ command.type = "UNKNOWN" => out = "ok"
       /\ command.type = "EXECUTE_ACTION" => out # "invalid"
       /\ command.type = "EXECUTE_ACTION" /\ out = "ok" /\ ~isDisposed
            => inflight < MaxInflight
       /\ Install(execute([Cur("execute") EXCEPT !.tag = command.type, !.input = out,
                                                   !.cmdPath = command.path],
                           command, out, ep))

\* The promise of runtime.execute settles and a suspended execute resumes.
ExecuteSettle ==
  /\ Idle
  /\ inflight > 0
  /\ \E outcome \in {"ok", "fail", "reject"} :
       Install(executeResume([Cur("execute resumed") EXCEPT !.input = outcome],
                             outcome))

Sync == Idle /\ Install(sync(Cur("sync")))

Dispose == Idle /\ Install(dispose(Cur("dispose")))

Get == Idle /\ \E p \in {dd} : Install(get(Cur("get"), p))

GetFieldPolicy == Idle /\ \E p \in {da} : Install(getFieldPolicy(Cur("getFieldPolicy"), p))

IsActionAvailable ==
  Idle /\ \E preconditions \in PreconditionLists :
    Install(isActionAvailable([Cur("isActionAvailable") EXCEPT
                                 !.preconditions = preconditions],
                              preconditions))

Subscribe ==
  Idle /\ \E l \in ListenerIds :
    Install(subscribe([Cur("subscribe") EXCEPT !.target = l], l))

\* The application calls a closure subscribe returned: the one of a registered
\* listener, or a kept one that it has called before.
Unsubscribe ==
  Idle /\ \E l \in ListenerIds, again \in BOOLEAN :
    /\ IF again THEN keepsClosures /\ l \in called ELSE l \in Range(listeners)
    /\ Install(unsubscribe([Cur("unsubscribe") EXCEPT
                              !.target = l, !.again = again,
                              !.called = IF keepsClosures THEN @ \cup {l} ELSE @],
                           l))

\* The handler has returned: the event loop is idle again.
Return ==
  /\ ~Idle
  /\ ev' = IdleEv
  /\ UNCHANGED <<config, isDisposed, syncTimeoutId, pendingPaths, listeners,
                 adapterUnsubscribe, runtimeUnsubscribe, rt, ext, timers,
                 inflight, elapsed, readded, called, cycle, hookVars,
                 adapterVars, codecVars>>

Next ==
  \/ RuntimeWrite
  \/ ExternalEdit
  \/ AdapterNotify
  \/ Tick
  \/ TimerFire
  \/ Capture
  \/ Execute
  \/ ExecuteSettle
  \/ Sync
  \/ Dispose
  \/ Get
  \/ GetFieldPolicy
  \/ IsActionAvailable
  \/ Subscribe
  \/ Unsubscribe
  \/ Return

Spec == Init /\ [][Next]_vars

\* ------------------------------------------------- the hook in a component
\* A render of the component: the first one mounts it.  The render creates the
\* bridge if the deps changed and assigns bridgeRef.current; then the effect
\* with deps [bridge] runs: if the bridge changed, the cleanup of the previous
\* effect first, then the new effect.
HookRender ==
  /\ hookPhase \in {"unmounted", "mounted"}
  /\ \E props \in HookProps :
       LET made == useMemoBridge(hookBridges, hookDeps, props)
           ref == Len(made)
           cleaned == IF effectBridge # 0 /\ effectBridge # ref
                      THEN effectCleanup(made, ref) ELSE made
       IN /\ Len(made) <= MaxBridges
          /\ hookPhase' = "mounted"
          /\ hookDeps' = props
          /\ hookBridges' = cleaned
          /\ bridgeRef' = ref
          /\ effectBridge' = ref
          /\ hev' = [op |-> "render", bridge |-> ref, returned |-> ref,
                     threw |-> "none"]
  /\ UNCHANGED <<bridgeVars, adapterVars, codecVars>>

\* The component unmounts: the cleanup of the installed effect runs.
HookUnmount ==
  /\ hookPhase = "mounted"
  /\ hookPhase' = "gone"
  /\ hookBridges' = effectCleanup(hookBridges, bridgeRef)
  /\ effectBridge' = 0
  /\ hev' = [op |-> "unmount", bridge |-> bridgeRef, returned |-> bridgeRef,
             threw |-> "none"]
  /\ UNCHANGED <<bridgeVars, hookDeps, bridgeRef, adapterVars, codecVars>>

\* The application calls get on a bridge the hook has returned to it.
HookGet ==
  /\ \E b \in 1..Len(hookBridges) :
       hev' = [op |-> "get", bridge |-> b, returned |-> bridgeRef,
               threw |-> get(OnBridge(b, "get"), da).threw]
  /\ UNCHANGED <<bridgeVars, hookPhase, hookDeps, hookBridges, bridgeRef,
                 effectBridge, adapterVars, codecVars>>

NextHook ==
  \/ HookRender
  \/ HookUnmount
  \/ HookGet

\* One bridge configuration: the hook passes its options through.
OneConfig ==
  /\ syncMode = "bidirectional" /\ autoSync /\ debounceMs = 0
  /\ hasSetManyData /\ hasSetManyState /\ adapterHasSubscribe /\ ~keepsClosures

InitHook == Init /\ OneConfig

SpecHook == InitHook /\ [][NextHook]_vars

\* ------------------------------------------------ the adapters' operations
\* The application subscribes a listener to the Zustand adapter.
ZSubscribe ==
  /\ adapterKind = "zustand"
  /\ Len(zSubs) < MaxSubscriptions
  /\ \E l \in ListenerIds :
       LET r == zustandSubscribe(zSubs, zListeners, zStore, l)
       IN /\ zSubs' = r.subs
          /\ zListeners' = r.listeners
          /\ aev' = [IdleAev EXCEPT !.op = "subscribe", !.listener = l,
                                    !.sub = Len(r.subs),
                                    !.hadListeners = Range(zListeners)]
  /\ UNCHANGED <<bridgeVars, hookVars, codecVars, adapterKind,
                 hasStateSelector, zStore, watchSubscription, rListeners,
                 rClosures>>

\* The application calls a closure a subscribe call returned, maybe again.
ZUnsubscribe ==
  /\ adapterKind = "zustand"
  /\ \E k \in 1..Len(zSubs) :
       LET r == zustandUnsubscribe(zSubs, zListeners, k)
       IN /\ zSubs' = r.subs
          /\ zListeners' = r.listeners
          /\ aev' = [IdleAev EXCEPT !.op = "unsubscribe",
                                    !.listener = zSubs[k].listener,
                                    !.sub = k,
                                    !.hadListeners = Range(zListeners)]
  /\ UNCHANGED <<bridgeVars, hookVars, codecVars, adapterKind,
                 hasStateSelector, zStore, watchSubscription, rListeners,
                 rClosures>>

\* Somebody calls the store's setState({key: value}): the store merges the
\* partial state and runs every installed subscription's callback.
ZSetState ==
  /\ adapterKind = "zustand"
  /\ \E key \in ZStoreKeys, value \in {"v0", "v1"} :
       LET state == [zStore EXCEPT ![key] = value]
           r == storeNotify(zSubs, 1, zListeners, state)
       IN /\ zStore' = state
          /\ zSubs' = r.subs
          /\ aev' = [IdleAev EXCEPT
                       !.op = "setState", !.key = key,
                       !.changed = {k \in ZDataKeys \cup
                                          (IF hasStateSelector THEN ZStateKeys
                                           ELSE {}) : zStore[k] # state[k]},
                       !.invoked = r.invoked,
                       !.hadListeners = Range(zListeners)]
  /\ UNCHANGED <<bridgeVars, hookVars, codecVars, adapterKind,
                 hasStateSelector, zListeners, watchSubscription, rListeners,
                 rClosures>>

\* The application subscribes a listener to the React Hook Form adapter.
RSubscribe ==
  /\ adapterKind = "rhf"
  /\ \E l \in ListenerIds :
       /\ rListeners' = setAdd(rListeners, l)
       /\ watchSubscription' = TRUE
       /\ rClosures' = rClosures \cup {l}
       /\ aev' = [IdleAev EXCEPT !.op = "subscribe", !.listener = l,
                                 !.hadListeners = Range(rListeners)]
  /\ UNCHANGED <<bridgeVars, hookVars, codecVars, adapterKind,
                 hasStateSelector, zStore, zSubs, zListeners>>

\* The application calls a closure a subscribe call returned, maybe again.
RUnsubscribe ==
  /\ adapterKind = "rhf"
  /\ \E l \in rClosures :
       LET left == setDelete(rListeners, l)
       IN /\ rListeners' = left
          /\ watchSubscription' = IF Len(left) = 0 THEN FALSE
                                  ELSE watchSubscription
          /\ aev' = [IdleAev EXCEPT !.op = "unsubscribe", !.listener = l,
                                    !.hadListeners = Range(rListeners)]
  /\ UNCHANGED <<bridgeVars, hookVars, codecVars, adapterKind,
                 hasStateSelector, zStore, zSubs, zListeners, rClosures>>

\* The form reports a change to its watchers: with a field name, or without
\* one (a reset, a change of the whole form).
RWatch ==
  /\ adapterKind = "rhf"
  /\ watchSubscription
  /\ \E name \in FieldNames :
       aev' = [IdleAev EXCEPT !.op = "watch", !.key = name,
                              !.invoked = watchCallback(rListeners, name),
                              !.hadListeners = Range(rListeners)]
  /\ UNCHANGED <<bridgeVars, hookVars, codecVars, adapterKind,
                 hasStateSelector, zStore, zSubs, zListeners,
                 watchSubscription, rListeners, rClosures>>

NextAdapters ==
  \/ ZSubscribe
  \/ ZUnsubscribe
  \/ ZSetState
  \/ RSubscribe
  \/ RUnsubscribe
  \/ RWatch

\* The application created one of the two adapters.
InitAdapters ==
  /\ InitBridge /\ OneConfig
  /\ adapterKind \in {"zustand", "rhf"}
  /\ hasStateSelector \in BOOLEAN
  /\ adapterKind = "rhf" => ~hasStateSelector
  /\ AdaptersAtRest
  /\ cev = IdleCev

SpecAdapters == InitAdapters /\ [][NextAdapters]_vars

\* ------------------------------------------- the bridge on a reactive store
\* The application (or a runtime action's effect) writes a runtime value.
ReactiveRuntimeWrite ==
  /\ Idle
  /\ \E p \in StoredPaths : \E v \in ValuesOf(p) :
       /\ rt[p] # v
       /\ Install(reactiveRuntimeSet(Cur("runtime write"), p, v, "ok"))

\* The user edits the reactive store: it reports the change at once, and out
\* is what runtime.set answers to the pull.
StoreEdit ==
  /\ Idle
  /\ \E p \in EditedPaths : \E v \in ValuesOf(p) : \E out \in {"ok", "invalid"} :
       /\ ext[p] # Normal(v)
       /\ Install(adapterNotify([Cur("store edit") EXCEPT
                                    !.ext[p] = Normal(v), !.batch = {p},
                                    !.answers = p :> out],
                                 {p}, p :> out))

NextReactive ==
  \/ ReactiveRuntimeWrite
  \/ StoreEdit
  \/ Subscribe
  \/ Dispose
  \/ Return

\* A bidirectional bridge with the defaults of autoSync and debounceMs.
InitReactive ==
  /\ Init
  /\ syncMode = "bidirectional" /\ autoSync /\ debounceMs = 0
  /\ adapterHasSubscribe /\ ~keepsClosures

SpecReactive == InitReactive /\ [][NextReactive]_vars


\* --------------------------------------- the bridge on a failing Actuator
\* The application writes a runtime value; actuator says whether the
\* Actuator's writes of this step throw.
FaultyRuntimeWrite ==
  /\ Idle
  /\ \E p \in StoredPaths : \E v \in ValuesOf(p) : \E actuator \in {"ok", "throw"} :
       /\ rt[p] # v
       /\ Install(faultyRuntimeSet([Cur("runtime write") EXCEPT !.input = actuator],
                                   p, v, "ok"))

NextFaulty ==
  \/ FaultyRuntimeWrite
  \/ Subscribe
  \/ Unsubscribe
  \/ Dispose
  \/ Return

\* A pushing bridge with the defaults of autoSync and debounceMs.
InitFaulty ==
  /\ Init
  /\ syncMode \in {"push", "bidirectional"} /\ autoSync /\ debounceMs = 0
  /\ ~keepsClosures

SpecFaulty == InitFaulty /\ [][NextFaulty]_vars

\* ------------------------------------- one change round the two wirings
\* What a step of the cycle leaves alone.
cycleFrame == <<config, called, isDisposed, syncTimeoutId, pendingPaths,
                listeners, adapterUnsubscribe, runtimeUnsubscribe, timers,
                inflight, elapsed, readded, ev, hookVars, adapterVars,
                codecVars>>

\* The application writes a runtime value, and the runtime announces it.
CycleRuntimeWrite ==
  /\ cycle.phase = "quiescent"
  /\ \E p \in {da, ss} : \E v \in Values : \E echo \in BOOLEAN :
       /\ rt[p] # v
       /\ rt' = [rt EXCEPT ![p] = v]
       /\ cycle' = [phase |-> "runtime notification", path |-> p, hops |-> 0,
                    echo |-> echo]
  /\ UNCHANGED <<ext, cycleFrame>>

\* The user edits the reactive store, and the Adapter announces it.
CycleStoreEdit ==
  /\ cycle.phase = "quiescent"
  /\ \E p \in {da, ss} : \E v \in Values : \E echo \in BOOLEAN :
       /\ ext[p] # Normal(v)
       /\ ext' = [ext EXCEPT ![p] = Normal(v)]
       /\ cycle' = [phase |-> "adapter notification", path |-> p, hops |-> 0,
                    echo |-> echo]
  /\ UNCHANGED <<rt, cycleFrame>>

\* The pull callback runs for the announced path.
CyclePull ==
  /\ cycle.phase = "adapter notification"
  /\ cycle.hops < MaxHops
  /\ \E out \in {"ok", "invalid"} :
       LET r == cyclePull(rt, ext, cycle.path, out)
       IN /\ rt' = r.rt
          /\ cycle' = [cycle EXCEPT
               !.hops = @ + 1,
               !.phase = IF r.notifies THEN "runtime notification"
                         ELSE "quiescent"]
  /\ UNCHANGED <<ext, cycleFrame>>

\* The runtime callback runs for the announced path and flushes it.
CyclePush ==
  /\ cycle.phase = "runtime notification"
  /\ cycle.hops < MaxHops
  /\ LET r == cyclePush(rt, ext, cycle.path, cycle.echo)
     IN /\ ext' = r.ext
        /\ cycle' = [cycle EXCEPT
             !.hops = @ + 1,
             !.phase = IF r.notifies THEN "adapter notification"
                       ELSE "quiescent"]
  /\ UNCHANGED <<rt, cycleFrame>>

NextCycle ==
  \/ CycleRuntimeWrite
  \/ CycleStoreEdit
  \/ CyclePull
  \/ CyclePush

\* A bidirectional bridge with the defaults of autoSync and debounceMs, on an
\* Adapter that has subscribe.
InitCycle ==
  /\ Init
  /\ syncMode = "bidirectional" /\ autoSync /\ debounceMs = 0
  /\ adapterHasSubscribe /\ ~keepsClosures

SpecCycle == InitCycle /\ [][NextCycle]_vars

\* ------------------------------------------- the path utilities' operations
ParsePath ==
  /\ cev.op = "idle"
  /\ \E path \in PathStrings :
       cev' = [IdleCev EXCEPT !.op = "parse", !.path = path,
                              !.parsed = parsePath(path)]
  /\ UNCHANGED <<bridgeVars, hookVars, adapterVars>>

GetNested ==
  /\ cev.op = "idle"
  /\ \E root \in Roots, segments \in SegmentSeqs :
       cev' = [IdleCev EXCEPT !.op = "get", !.root = root,
                              !.segments = segments,
                              !.after = getNestedValue(root, segments)]
  /\ UNCHANGED <<bridgeVars, hookVars, adapterVars>>

\* after is the root object when the call has returned or thrown.
SetNested ==
  /\ cev.op = "idle"
  /\ \E root \in Roots, segments \in SegmentSeqs, value \in NewValues :
       LET r == setNestedValue(root, segments, value)
       IN cev' = [IdleCev EXCEPT !.op = "set", !.root = root,
                                 !.segments = segments, !.value = value,
                                 !.after = r.obj, !.threw = r.threw]
  /\ UNCHANGED <<bridgeVars, hookVars, adapterVars>>

Flatten ==
  /\ cev.op = "idle"
  /\ \E root \in Roots, prefix \in Prefixes :
       cev' = [IdleCev EXCEPT !.op = "flatten", !.root = root,
                              !.path = prefix,
                              !.flat = flattenObject(root, prefix)]
  /\ UNCHANGED <<bridgeVars, hookVars, adapterVars>>

\* The call has returned or thrown; the next call may be made.
CodecReturn ==
  /\ cev.op # "idle"
  /\ cev' = IdleCev
  /\ UNCHANGED <<bridgeVars, hookVars, adapterVars>>

NextCodec ==
  \/ ParsePath
  \/ GetNested
  \/ SetNested
  \/ Flatten
  \/ CodecReturn

InitCodec == Init /\ OneConfig

SpecCodec == InitCodec /\ [][NextCodec]_vars



\* ------------------------------------------------------------ observations
\* The calls of the last step made on one collaborator with one method.
CallsOf(to, m) ==
  {i \in 1..Len(ev.calls) : ev.calls[i].to = to /\ ev.calls[i].m = m}

ActuatorCalls == {i \in 1..Len(ev.calls) : ev.calls[i].to = "actuator"}

\* The runtime's value of a path in the current state.
CurrentValue(p) ==
  IF p \in StoredPaths THEN rt[p] ELSE IF p = dd THEN rt[da] ELSE Undefined

\* first segment is data or state, and something follows it
Pushable(p) == startsWith(p, "data") \/ startsWith(p, "state")

HardOps == {"get", "getFieldPolicy", "capture", "sync"}

Debounced == debounceMs > 0 /\ autoSync /\ syncMode \in {"push", "bidirectional"}

\* ------------------------------------------------------------------ claims

\* C1: on a disposed instance get, getFieldPolicy, capture and sync throw
\* 'Bridge is disposed', and execute, whatever the command tag, resolves to
\* DISPOSED_ERROR without throwing and without touching the runtime.
C1_DisposedTwoTiers ==
  ev.wasDisposed =>
    /\ ev.op \in HardOps => ev.threw = "Bridge is disposed" /\ ev.calls = <<>>
    /\ ev.op = "execute" =>
         ev.result = "DISPOSED_ERROR" /\ ev.threw = "none" /\ ev.calls = <<>>

\* C1 witness: execute(SET_MANY) on a disposed instance gave DISPOSED_ERROR.
C1_Witness ==
  /\ ev.wasDisposed /\ ev.op = "execute" /\ ev.tag = "SET_MANY"
  /\ ev.result = "DISPOSED_ERROR"

\* C2: with debounceMs > 0 and autoSync, a runtime notification writes nothing
\* and leaves exactly one live timer, armed with the full debounceMs; the timer
\* flushes once, no earlier than debounceMs after the last notification, and
\* leaves no timer behind; apart from sync(), nothing else writes.
C2_DebounceOneFlush ==
  Debounced =>
    /\ Cardinality(DOMAIN timers) <= 1
    /\ ev.scheduled > 0 =>
         /\ ActuatorCalls = {} /\ ev.flushes = 0
         /\ syncTimeoutId # Null /\ DOMAIN timers = {syncTimeoutId}
         /\ timers[syncTimeoutId] = debounceMs
    /\ ev.flushes > 0 =>
         /\ ev.op = "timer" /\ ev.flushes = 1
         /\ ev.flushedAt = debounceMs
         /\ DOMAIN timers = {} /\ syncTimeoutId = Null /\ pendingPaths = {}
    /\ ActuatorCalls # {} => ev.op \in {"timer", "sync"}

\* C2 witness: one flush wrote a path that was notified several times.
C2_Witness ==
  /\ Debounced /\ ev.op = "timer" /\ ev.flushes = 1
  /\ ev.coalesced # {} /\ ActuatorCalls # {}

\* C3: every value handed to the Actuator for a path is the runtime's current
\* value of that path, and one flush or sync writes a path at most once.
C3_PushesCurrentValue ==
  /\ \A i \in ActuatorCalls : \A p \in DOMAIN ev.calls[i].upd :
       ev.calls[i].upd[p] = CurrentValue(p)
  /\ ev.op \in {"timer", "sync"} =>
       \A i, j \in ActuatorCalls :
         i # j => DOMAIN ev.calls[i].upd \cap DOMAIN ev.calls[j].upd = {}

\* C3 witness: a debounced flush pushed data.a after it had changed several times.
C3_Witness ==
  /\ ev.op = "timer" /\ da \in ev.coalesced
  /\ \E i \in ActuatorCalls : da \in DOMAIN ev.calls[i].upd

\* C4: once disposed, no step writes to the Actuator, flushes, or writes to the
\* runtime from the pull wiring, and no timer is left armed.
C4_NothingAfterDispose ==
  /\ isDisposed => DOMAIN timers = {} /\ syncTimeoutId = Null
  /\ ev.op = "dispose" => ActuatorCalls = {} /\ ev.flushes = 0
  /\ ev.wasDisposed =>
       /\ ActuatorCalls = {} /\ ev.flushes = 0 /\ ev.scheduled = 0
       /\ ev.op = "adapter notification" => ev.calls = <<>>

\* C4 witness: an Adapter notification delivered after dispose did nothing.
C4_Witness ==
  ev.wasDisposed /\ ev.op = "adapter notification" /\ ev.calls = <<>>

\* C5: the pull wiring passes to runtime.set only paths of data.* and state.*.
C5_PullOnlyDataState ==
  ev.op = "adapter notification" =>
    \A i \in CallsOf("runtime", "set") :
      \A p \in DOMAIN ev.calls[i].upd : Pushable(p)

\* C6: every path of every Actuator write is in data.* or state.*; a flush
\* that drains only other paths makes no Actuator call.
C6_PushOnlyDataState ==
  /\ \A i \in ActuatorCalls : \A p \in DOMAIN ev.calls[i].upd : Pushable(p)
  /\ ev.flushes > 0 /\ (\A p \in ev.drained : ~Pushable(p)) => ActuatorCalls = {}

\* C6 witness: a flush drained a derived path and still wrote to the Actuator.
C6_Witness ==
  ev.flushes > 0 /\ dd \in ev.drained /\ ActuatorCalls # {}

\* C7: execute never throws, before or after its await; whenever the runtime
\* throws or its promise rejects, the result is EXECUTION_ERROR.
C7_ExecuteNeverThrows ==
  ev.op \in {"execute", "execute resumed"} =>
    /\ ev.threw = "none"
    /\ ev.result # "none"
    /\ ev.raised => ev.result = "EXECUTION_ERROR"

\* C7 witness: a rejected runtime.execute promise became EXECUTION_ERROR.
C7_Witness ==
  /\ ev.op = "execute resumed" /\ ev.input = "reject" /\ ev.raised
  /\ ev.result = "EXECUTION_ERROR"

\* C8: an execute that resumes after dispose returns the runtime's outcome,
\* never DISPOSED_ERROR; DISPOSED_ERROR is returned only by calls made on a
\* disposed instance.
C8_InflightSurvivesDispose ==
  /\ ev.op = "execute resumed" =>
       /\ ev.input = "ok" => ev.result = "ok"
       /\ ev.input \in {"fail", "reject"} => ev.result = "EXECUTION_ERROR"
  /\ ev.result = "DISPOSED_ERROR" => ev.op = "execute" /\ ev.wasDisposed

\* C8 witness: an action issued before dispose settled ok after it.
C8_Witness ==
  ev.op = "execute resumed" /\ ev.wasDisposed /\ ev.result = "ok"

\* C9: on a live instance SET_VALUE makes one runtime.set call and SET_MANY one
\* runtime.setMany call, nothing else on the runtime; a failure is a
\* VALIDATION_ERROR with the command's path (SET_VALUE) or the path the runtime
\* reported (SET_MANY); a success is ok.
C9_SetCommands ==
  ev.op = "execute" /\ ~ev.wasDisposed /\ ev.tag \in {"SET_VALUE", "SET_MANY"} =>
    /\ ev.tag = "SET_VALUE" =>
         Cardinality(CallsOf("runtime", "set")) = 1 /\ CallsOf("runtime", "setMany") = {}
    /\ ev.tag = "SET_MANY" =>
         Cardinality(CallsOf("runtime", "setMany")) = 1 /\ CallsOf("runtime", "set") = {}
    /\ ev.ret = "ok" => ev.result = "ok"
    /\ ev.ret = "invalid" =>
         /\ ev.result = "VALIDATION_ERROR"
         /\ ev.errPath = IF ev.tag = "SET_VALUE" THEN ev.cmdPath ELSE ev.retPath

\* C9 witness: a SET_MANY failure tagged with a path that is not the first
\* one of the updates.
C9_Witness ==
  /\ ev.op = "execute" /\ ev.tag = "SET_MANY" /\ ev.result = "VALIDATION_ERROR"
  /\ ev.errPath = ss

\* C10: on a live instance EXECUTE_ACTION calls runtime.execute once and
\* suspends; resumed, it returns ok on success and EXECUTION_ERROR with the
\* runtime's cause on failure, never VALIDATION_ERROR.
C10_ExecuteAction ==
  /\ ev.op = "execute" /\ ~ev.wasDisposed /\ ev.tag = "EXECUTE_ACTION" =>
       /\ Cardinality(CallsOf("runtime", "execute")) = 1
       /\ ev.result \in {"pending", "EXECUTION_ERROR"}
       /\ ev.result = "pending" <=> ev.input = "ok"
  /\ ev.op = "execute resumed" =>
       /\ ev.result # "VALIDATION_ERROR"
       /\ ev.input = "ok" => ev.result = "ok"
       /\ ev.input = "fail" =>
            ev.result = "EXECUTION_ERROR" /\ ev.cause = "runtime cause"

\* C10 witness: a failed action came back as EXECUTION_ERROR with its cause.
C10_Witness ==
  /\ ev.op = "execute resumed" /\ ev.input = "fail"
  /\ ev.result = "EXECUTION_ERROR" /\ ev.cause = "runtime cause"

\* C11: capture on a live instance reads captureData and captureState once
\* each, hands their merge to one runtime.setMany call, makes no runtime.set
\* call, and, whether setMany answers ok or a validation failure, ends with
\* runtime.getSnapshot() and throws nothing.
C11_CaptureOneSetMany ==
  ev.op = "capture" /\ ~ev.wasDisposed =>
    /\ Cardinality(CallsOf("adapter", "captureData")) = 1
    /\ Cardinality(CallsOf("adapter", "captureState")) = 1
    /\ Cardinality(CallsOf("runtime", "setMany")) = 1
    /\ CallsOf("runtime", "set") = {}
    /\ \A i \in CallsOf("runtime", "setMany") :
         \A d \in CallsOf("adapter", "captureData") :
           \A c \in CallsOf("adapter", "captureState") :
             /\ d < i /\ c < i
             /\ ev.calls[i].upd = ev.calls[c].upd @@ ev.calls[d].upd
    /\ ev.input \in {"ok", "invalid"} =>
         /\ ev.threw = "none"
         /\ ev.calls[Len(ev.calls)].m = "getSnapshot"

\* C11 witness: setMany reported a validation failure and capture still
\* returned the snapshot.
C11_Witness ==
  /\ ev.op = "capture" /\ ~ev.wasDisposed /\ ev.input = "invalid"
  /\ ev.ret = "invalid" /\ ev.threw = "none"
  /\ ev.calls[Len(ev.calls)].m = "getSnapshot"

\* The invocations of listener l for the n-th change of the last step.
InvocationsOf(n, l) ==
  {i \in 1..Len(ev.invoked) : ev.invoked[i].n = n /\ ev.invoked[i].listener = l}

\* C12: for every change the runtime delivers to the push wiring of a live
\* instance, each listener registered at that moment is invoked exactly once,
\* with that change's snapshot and changed paths, and nobody else is invoked;
\* autoSync plays no part.
C12_ListenersForwarded ==
  /\ \A n \in 1..Len(ev.notified) :
       ev.notified[n].wired /\ ~ev.notified[n].disposed =>
         \A l \in Range(ev.notified[n].listeners) :
           /\ Cardinality(InvocationsOf(n, l)) = 1
           /\ \A i \in InvocationsOf(n, l) :
                /\ ev.invoked[i].snapshot = ev.notified[n].snapshot
                /\ ev.invoked[i].changedPaths = ev.notified[n].changedPaths
  /\ \A i \in 1..Len(ev.invoked) :
       /\ ev.invoked[i].n \in 1..Len(ev.notified)
       /\ ev.invoked[i].listener \in Range(ev.notified[ev.invoked[i].n].listeners)

\* C12 witness: with autoSync off, a change reached two registered listeners.
C12_Witness ==
  /\ ~autoSync /\ Len(ev.notified) = 1 /\ Len(ev.invoked) = 2
  /\ ev.invoked[1].changedPaths = {da, dd}

\* C13: when a listener throws, the exception is caught and counted, every
\* listener registered after it is still invoked for the same change, and the
\* exception does not leave the callback: the runtime call that announced the
\* change completes with its own result.
C13_ListenerErrorContained ==
  /\ ev.threw # "listener"
  /\ ev.caught =
       Cardinality({i \in 1..Len(ev.invoked) : ev.invoked[i].listener \in Throwing})
  /\ \A i \in 1..Len(ev.invoked) :
       ev.invoked[i].listener \in Throwing =>
         LET ls == ev.notified[ev.invoked[i].n].listeners IN
         \A j, k \in 1..Len(ls) :
           ls[j] = ev.invoked[i].listener /\ j < k =>
             \E m \in InvocationsOf(ev.invoked[i].n, ls[k]) : m > i
  /\ ev.caught > 0 /\ ev.op = "execute" /\ ev.tag = "SET_VALUE" => ev.result = "ok"

\* C13 witness: the first listener threw and the second one was invoked after it.
C13_Witness ==
  /\ ev.caught = 1 /\ Len(ev.invoked) = 2
  /\ ev.invoked[1].listener \in Throwing /\ ev.invoked[2].listener \notin Throwing
  /\ ev.invoked[1].n = ev.invoked[2].n /\ ev.threw = "none"

\* C14: with autoSync off nothing is ever pending and no timer is ever armed,
\* no step reaches schedulePush or flushPush, and the only step that calls the
\* Actuator is sync().
C14_NoAutoSyncNoPush ==
  ~autoSync =>
    /\ pendingPaths = {} /\ DOMAIN timers = {} /\ syncTimeoutId = Null
    /\ ev.scheduled = 0 /\ ev.flushes = 0
    /\ ActuatorCalls # {} => ev.op = "sync"

\* C14 witness: with autoSync off and a debounce window configured, a change
\* delivered to the push wiring of a live instance wrote nothing.
C14_Witness ==
  /\ ~autoSync /\ debounceMs > 0 /\ Len(ev.notified) = 1
  /\ ev.notified[1].wired /\ ~ev.notified[1].disposed
  /\ ActuatorCalls = {} /\ pendingPaths = {} /\ DOMAIN timers = {}

\* The paths the Actuator was handed in the last step.
WrittenPaths == UNION {DOMAIN ev.calls[i].upd : i \in ActuatorCalls}

\* C15: sync() on a live instance leaves no timer armed and hands the Actuator
\* every data and state path of the snapshot, each with the runtime's current
\* value, whether or not the path changed recently.
C15_SyncPushesAll ==
  ev.op = "sync" /\ ~ev.wasDisposed =>
    /\ DOMAIN timers = {} /\ syncTimeoutId = Null
    /\ ev.threw = "none"
    /\ WrittenPaths = StoredPaths
    /\ \A i \in ActuatorCalls : \A p \in DOMAIN ev.calls[i].upd :
         ev.calls[i].upd[p] = rt[p]

\* C15 witness: sync() ran while a debounced push was pending (its timer is
\* gone, its paths are still pending) and wrote paths that were not pending.
C15_Witness ==
  /\ ev.op = "sync" /\ ~ev.wasDisposed /\ debounceMs > 0
  /\ pendingPaths # {} /\ DOMAIN timers = {}
  /\ WrittenPaths \ pendingPaths # {}

\* C16: until dispose, the Adapter subscription exists exactly when syncMode
\* is pull or bidirectional and the Adapter has subscribe, and the runtime
\* subscription exactly when syncMode is push or bidirectional; in push mode
\* an Adapter change makes the engine call nothing; in pull mode no step in
\* which the runtime announced a change calls the Actuator.
C16_WiringBySyncMode ==
  /\ ~isDisposed =>
       /\ adapterUnsubscribe <=>
            (syncMode \in {"pull", "bidirectional"} /\ adapterHasSubscribe)
       /\ runtimeUnsubscribe <=> syncMode \in {"push", "bidirectional"}
  /\ syncMode = "push" /\ ev.op = "adapter notification" =>
       ev.calls = <<>> /\ ev.notified = <<>>
  /\ syncMode = "pull" /\ ev.notified # <<>> =>
       ActuatorCalls = {} /\ ev.invoked = <<>> /\ ev.scheduled = 0

\* C16 witness: in pull mode an Adapter change was pulled into the runtime,
\* the runtime announced it, and nothing was pushed back.
C16_Witness ==
  /\ syncMode = "pull" /\ ev.op = "adapter notification" /\ ~ev.wasDisposed
  /\ autoSync /\ ev.notified # <<>> /\ ActuatorCalls = {}

\* C16 second witness: in push mode the Adapter announced a change.
C16_PushModeAdapterChange ==
  syncMode = "push" /\ ev.op = "adapter notification" /\ ~ev.wasDisposed

AdapterCalls == {i \in 1..Len(ev.calls) : ev.calls[i].to = "adapter"}

\* C17: in pull mode no step calls the Actuator, and in push mode no step
\* calls the Adapter.
C17_ModeExclusive ==
  /\ syncMode = "pull" => ActuatorCalls = {}
  /\ syncMode = "push" => AdapterCalls = {}

\* C18: every change the runtime announces while the instance is live is
\* followed by an invocation of each registered listener, in every syncMode.
C18_ListenersInEveryMode ==
  \A n \in 1..Len(ev.notified) :
    ~ev.notified[n].disposed =>
      \A l \in Range(ev.notified[n].listeners) : InvocationsOf(n, l) # {}

\* The calls of method m the k-th pushToExternal run of the last step made.
PushCalls(k, m) ==
  {i \in ev.pushed[k].from .. ev.pushed[k].to :
     ev.calls[i].to = "actuator" /\ ev.calls[i].m = m}

\* One partition of one pushToExternal run: part are its paths, has says
\* whether the Actuator has the batched method many, one is the scalar method.
PartitionWritten(k, part, has, many, one) ==
  IF part = {} THEN PushCalls(k, many) = {} /\ PushCalls(k, one) = {}
  ELSE IF has
  THEN /\ PushCalls(k, one) = {}
       /\ Cardinality(PushCalls(k, many)) = 1
       /\ \A i \in PushCalls(k, many) : DOMAIN ev.calls[i].upd = part
  ELSE /\ PushCalls(k, many) = {}
       /\ Cardinality(PushCalls(k, one)) = Cardinality(part)
       /\ \A p \in part :
            Cardinality({i \in PushCalls(k, one) : DOMAIN ev.calls[i].upd = {p}}) = 1

\* C19: every run of pushToExternal, from a flush or from sync(), writes its
\* data partition with one setManyData carrying the whole partition if the
\* Actuator has it, else with one setData per path, and nothing if the
\* partition is empty; the same for the state partition; every flush and every
\* sync() is one such run, and no Actuator call is made outside of one.
C19_BatchedPreferred ==
  /\ \A k \in 1..Len(ev.pushed) :
       /\ PartitionWritten(k, {p \in ev.pushed[k].paths : startsWith(p, "data")},
                           hasSetManyData, "setManyData", "setData")
       /\ PartitionWritten(k, {p \in ev.pushed[k].paths : startsWith(p, "state")},
                           hasSetManyState, "setManyState", "setState")
  /\ \A i \in ActuatorCalls :
       \E k \in 1..Len(ev.pushed) : i \in ev.pushed[k].from .. ev.pushed[k].to
  /\ Len(ev.pushed) = ev.flushes + (IF ev.op = "sync" /\ ~ev.wasDisposed THEN 1 ELSE 0)

\* C19 witness: an Actuator with setManyData and without setManyState got one
\* batched call for two data paths and a scalar call for the state path.
C19_Witness ==
  /\ hasSetManyData /\ ~hasSetManyState /\ Len(ev.pushed) = 1
  /\ \E i \in PushCalls(1, "setManyData") : DOMAIN ev.calls[i].upd = {da, db}
  /\ PushCalls(1, "setState") # {}

\* C19 second witness: a flush whose state partition was empty wrote its data
\* partition path by path.
C19_FlushScalar ==
  /\ ~hasSetManyData /\ ev.flushes = 1 /\ Len(ev.pushed) = 1
  /\ ev.pushed[1].paths = {da, dd}
  /\ Cardinality(PushCalls(1, "setData")) = 1 /\ PushCalls(1, "setState") = {}

\* The runtime.set calls of the last step on path p.
SetCallsOn(p) ==
  {i \in CallsOf("runtime", "set") : DOMAIN ev.calls[i].upd = {p}}

\* C20: when the Adapter reports a batch to the pull wiring of a live instance
\* and no runtime.set throws, each path of the batch gets exactly one
\* runtime.set, whose value is the one just read with adapter.getState for a
\* state path and adapter.getData for any other; a validation failure of one
\* write throws nothing, is not repeated and does not end the loop.
C20_PullWritesEachPath ==
  /\ ev.op = "adapter notification" /\ ~ev.wasDisposed /\ pullWiring
  /\ \A p \in ev.batch : ev.answers[p] # "throw"
  =>
  /\ ev.threw = "none"
  /\ Cardinality(CallsOf("runtime", "set")) = Cardinality(ev.batch)
  /\ \A p \in ev.batch :
       /\ Cardinality(SetCallsOn(p)) = 1
       /\ \A i \in SetCallsOn(p) :
            /\ i > 1
            /\ ev.calls[i - 1].to = "adapter"
            /\ ev.calls[i - 1].m =
                 (IF startsWith(p, "state") THEN "getState" ELSE "getData")
            /\ ev.calls[i - 1].upd = ev.calls[i].upd

\* C20 witness: the write of data.a failed validation and state.s was still
\* read with getState and written after it.
C20_Witness ==
  /\ ev.op = "adapter notification" /\ ~ev.wasDisposed
  /\ ev.batch = {da, ss} /\ ev.answers[da] = "invalid" /\ ev.threw = "none"
  /\ \E i \in SetCallsOn(da) : \E j \in SetCallsOn(ss) :
       i < j /\ ev.calls[j - 1].m = "getState"

\* The listeners of a sequence other than l, in their order.
Without(ls, l) == SelectSeq(ls, LAMBDA x : x # l)

\* C21: calling the closure of a registered listener takes exactly that
\* listener out of the Set and leaves the others in place; the Set changes in
\* subscribe, unsubscribe and dispose steps only; and a notification invokes
\* the listeners in the Set and nobody else.  So a listener whose closure was
\* called is not invoked again unless it subscribes again, and the others are.
C21_UnsubscribedNotInvoked ==
  /\ ev.op = "unsubscribe" /\ ~ev.again =>
       /\ ev.target \notin Range(listeners)
       /\ listeners = Without(ev.listenersBefore, ev.target)
  /\ ev.op \notin {"idle", "subscribe", "unsubscribe", "dispose"} =>
       listeners = ev.listenersBefore
  /\ \A n \in 1..Len(ev.notified) :
       /\ ev.notified[n].listeners = ev.listenersBefore
       /\ ev.notified[n].wired /\ ~ev.notified[n].disposed =>
            {ev.invoked[i].listener : i \in {j \in 1..Len(ev.invoked) : ev.invoked[j].n = n}}
              = Range(ev.listenersBefore)

\* C21 witness: the second of two listeners had unsubscribed, and the
\* next change invoked the first one only.
C21_Witness ==
  /\ "l2" \in called /\ listeners = <<"l1">> /\ Len(ev.notified) = 1
  /\ Len(ev.invoked) = 1 /\ ev.invoked[1].listener = "l1"

\* C21 second witness: the first of two listeners unsubscribed.
C21_FirstOfTwoLeft ==
  /\ ev.op = "unsubscribe" /\ Len(ev.listenersBefore) = 2
  /\ ev.target = ev.listenersBefore[1] /\ Len(listeners) = 1

\* C22: calling a closure that has been called before leaves the Set of
\* listeners as it was.
C22_ClosureIdempotent ==
  ev.op = "unsubscribe" /\ ev.again => listeners = ev.listenersBefore

\* The closure state of createBridge.
engine == <<isDisposed, syncTimeoutId, pendingPaths, listeners,
            adapterUnsubscribe, runtimeUnsubscribe>>

\* C23: a disposed instance stays disposed; dispose() on a disposed instance
\* changes nothing of the closure state, the timers, the runtime or the store
\* and calls nobody; the Adapter's and the runtime's unsubscribe functions are
\* called only by the dispose() that finds the instance live, once each at most.
C23_DisposeIdempotent ==
  [][ /\ isDisposed => isDisposed'
      /\ ev'.op = "dispose" /\ isDisposed =>
           /\ UNCHANGED <<engine, timers, rt, ext, inflight>>
           /\ ev'.calls = <<>> /\ ev'.threw = "none"
      /\ \A m \in {"adapter", "runtime"} :
           LET U == {i \in 1..Len(ev'.calls) :
                       ev'.calls[i].to = m /\ ev'.calls[i].m = "unsubscribe"}
           IN /\ Cardinality(U) <= 1
              /\ U # {} => ev'.op = "dispose" /\ ~isDisposed
    ]_vars

\* C23 witness: dispose() was called on a disposed instance.
C23_Witness == ev.op = "dispose" /\ ev.wasDisposed

\* C23 second witness: the first dispose() called both unsubscribe functions.
C23_BothUnsubscribed ==
  /\ ev.op = "dispose" /\ ~ev.wasDisposed
  /\ CallsOf("adapter", "unsubscribe") # {} /\ CallsOf("runtime", "unsubscribe") # {}

\* C24: on a live instance isActionAvailable asks the runtime for the
\* preconditions once and returns true exactly when every one of them is
\* satisfied: true for the empty list, false as soon as one is unsatisfied.
C24_AvailableIffAllSatisfied ==
  ev.op = "isActionAvailable" /\ ~ev.wasDisposed =>
    /\ ev.threw = "none"
    /\ Cardinality(CallsOf("runtime", "getPreconditions")) = 1
    /\ ev.result \in {"true", "false"}
    /\ ev.result = "true" <=>
         \A i \in 1..Len(ev.preconditions) : ev.preconditions[i]
    /\ ev.preconditions = <<>> => ev.result = "true"

\* C24 witness: one unsatisfied precondition after a satisfied one gave false.
C24_Witness ==
  /\ ev.op = "isActionAvailable" /\ ~ev.wasDisposed
  /\ ev.preconditions = <<TRUE, FALSE>> /\ ev.result = "false"

\* C24 second witness: an action without preconditions is available.
C24_EmptyListAvailable ==
  /\ ev.op = "isActionAvailable" /\ ~ev.wasDisposed
  /\ ev.preconditions = <<>> /\ ev.result = "true"

\* C25: once the component has unmounted, the bridge the hook returned to it
\* in its last render is disposed, and get on that bridge throws
\* 'Bridge is disposed'.
C25_UnmountDisposes ==
  hookPhase = "gone" =>
    /\ bridgeRef \in 1..Len(hookBridges)
    /\ hookBridges[bridgeRef].isDisposed
    /\ hev.op = "get" /\ hev.bridge = bridgeRef => hev.threw = "Bridge is disposed"

\* C25 witness: after the unmount, get on the returned bridge threw.
C25_Witness ==
  /\ hookPhase = "gone" /\ hev.op = "get" /\ hev.bridge = bridgeRef
  /\ hev.threw = "Bridge is disposed"

\* C26: every invocation a reactive adapter (Zustand, React Hook Form) makes
\* of a subscribed callback passes a non-empty list of changed paths; a
\* setState that changes no selected key of the Zustand store, and a form
\* change reported without a field name, invoke no callback.
C26_NonEmptyPaths ==
  /\ \A i \in 1..Len(aev.invoked) : Len(aev.invoked[i].paths) > 0
  /\ aev.op = "setState" /\ aev.changed = {} => aev.invoked = <<>>
  /\ aev.op = "watch" /\ aev.key \in {Undefined, ""} => aev.invoked = <<>>

\* A setState changed a selected key while two listeners were subscribed and
\* both were invoked with the changed path.
C26_Witness ==
  /\ aev.op = "setState"
  /\ aev.changed # {}
  /\ aev.hadListeners = ListenerIds
  /\ {aev.invoked[i].listener : i \in 1..Len(aev.invoked)} = ListenerIds

\* A setState of a key no selector reads, and a form change without a field
\* name, reached the adapter while a listener was subscribed.
C26_SilentStoreUpdate ==
  /\ aev.op = "setState" /\ aev.key = "o"
  /\ aev.hadListeners # {} /\ \E k \in 1..Len(zSubs) : zSubs[k].live

C26_SilentFormChange ==
  /\ aev.op = "watch" /\ aev.key = Undefined /\ aev.hadListeners # {}

\* C27: for every non-empty segment sequence segs, every root x and every
\* value v, getNested on x after setNested(x, segs, v) returns v; for the
\* empty segment sequence setNested leaves x unchanged.
C27_RoundTrip ==
  cev.op = "set" =>
    IF Len(cev.segments) = 0 THEN cev.after = cev.root
    ELSE getNestedValue(cev.after, cev.segments) = cev.value

\* What the code does give: the round trip whenever setNested returns, which
\* it does when the root and every existing value on the way is an object, an
\* array, or (below the root) null or missing.
C27_RoundTripWhenReturned ==
  cev.op = "set" /\ ~cev.threw =>
    IF Len(cev.segments) = 0 THEN cev.after = cev.root
    ELSE getNestedValue(cev.after, cev.segments) = cev.value

C27_ReturnedThroughCreatedArray ==
  /\ cev.op = "set" /\ ~cev.threw /\ Len(cev.segments) = MaxSegments
  /\ cev.root = EmptyObject
  /\ cev.segments[2] = <<"0">>
  /\ cev.value = Two

\* C28: the path codec is total: parse, getNested, setNested and flatten
\* never throw, whatever the input, also when the root or a value on the way
\* is null, missing or a primitive.
C28_CodecTotal == ~cev.threw

\* The leaves flatten is said to list: the nodes that are not plain objects
\* and lie below plain objects only.
tagAt(x, path) == (CHOOSE n \in x : n[1] = path)[2]
subtree(x, path) ==
  {<<SubSeq(n[1], Len(path) + 1, Len(n[1])), n[2]>> :
     n \in {m \in x : /\ Len(m[1]) >= Len(path)
                      /\ SubSeq(m[1], 1, Len(path)) = path}}
leaves(x) ==
  {n \in x : /\ n[2] # "object"
             /\ \A i \in 0..(Len(n[1]) - 1) :
                  tagAt(x, SubSeq(n[1], 1, i)) = "object"}
RECURSIVE dotted(_, _)
dotted(prefix, path) ==
  IF Len(path) = 0 THEN prefix
  ELSE dotted(prefix \o <<".">> \o Head(path), Tail(path))
entries(x, prefix) ==
  {<<dotted(prefix, n[1]), subtree(x, n[1])>> : n \in leaves(x)}

\* C29 as stated: flatten(value, prefix) expands plain-object fields
\* recursively into prefix.field keys, maps a non-object value to the single
\* entry prefix -> value, and never expands a sequence: a sequence at any
\* depth is stored whole under its own path.
C29_FlattenAsStated ==
  cev.op = "flatten" => cev.flat = entries(cev.root, cev.path)

\* C29 amended: the same, except that flatten of null or undefined itself is
\* the empty mapping (a null or undefined field of an object keeps its
\* entry).
C29_Flatten ==
  cev.op = "flatten" =>
    cev.flat = IF isNullish(cev.root) THEN {}
               ELSE entries(cev.root, cev.path)

\* An object whose field holds a non-empty array was flattened: the array is
\* one entry, stored whole.
C29_Witness ==
  /\ cev.op = "flatten"
  /\ kindOf(cev.root) = "object"
  /\ \E key \in ownKeys(cev.root) :
       LET value == property(cev.root, key)
       IN /\ kindOf(value) = "array" /\ ownKeys(value) # {}
          /\ <<cev.path \o <<".">> \o key, value>> \in cev.flat
          /\ Cardinality(cev.flat) = 1

\* parsePath on "a[0]", on "a['0']" and on "a.0": the same two segments.
C28_ParseSamples ==
  /\ parsePath(<<"a", "[", "0", "]">>) = <<<<"a">>, <<"0">>>>
  /\ parsePath(<<"a", ".", "0">>) = <<<<"a">>, <<"0">>>>
  /\ parsePath(<<"[", "'", "a", "'">>) = <<<<"a">>>>
  /\ parsePath(<<"a", ".", ".", "a">>) = <<<<"a">>, <<"a">>>>
  /\ parsePath(<<>>) = <<>>
  /\ parsePath(<<"[", "]">>) = <<>>

\* C30: no flush starts while another flush is still in progress: between the
\* start of a flush and its completion, the Actuator writes that at once
\* trigger an Adapter notification, a pull into the runtime and a runtime
\* notification included, flushPush is not entered again.
C30_NoFlushReentry == ev.reentered = 0

\* A runtime write was pushed to the store, pulled back normalized, and the
\* listeners heard of both changes.
C30_NestedFlushSeen ==
  /\ ev.op = "runtime write" /\ ev.flushes = 2 /\ ev.reentered = 1
  /\ Len(ev.invoked) = 2

\* C31: a disposed instance stays disposed, and in every state in which it is
\* disposed the pending set is empty, no timer is armed and no listener is
\* registered, whatever is called or delivered afterwards; subscribe on a
\* disposed instance throws.
C31_DisposedForGood ==
  [][ /\ isDisposed => isDisposed'
      /\ isDisposed' =>
           /\ pendingPaths' = {} /\ listeners' = <<>>
           /\ syncTimeoutId' = Null /\ DOMAIN timers' = {}
      /\ isDisposed /\ ev'.op = "subscribe" => ev'.threw = "Bridge is disposed"
    ]_vars

\* C31 witness: the runtime announced a change to the callback of a disposed
\* instance that had pushed with a debounce.
C31_Witness ==
  /\ isDisposed /\ ev.wasDisposed /\ ev.op = "runtime write"
  /\ Debounced /\ Len(ev.notified) = 1 /\ ev.notified[1].wired

\* C31 second witness: subscribe was called on a disposed instance.
C31_SubscribeAfterDispose ==
  isDisposed /\ ev.wasDisposed /\ ev.op = "subscribe"

\* C32: with autoSync on and debounceMs = 0, a runtime notification that
\* reaches the callback of a live instance invokes every registered listener,
\* also when an Actuator write of its flush throws.
C32_ListenersDespiteThrow ==
  ev.op = "runtime write" /\ autoSync /\ debounceMs = 0 =>
    \A n \in 1..Len(ev.notified) :
      ev.notified[n].wired /\ ~ev.notified[n].disposed =>
        \A l \in Range(ev.notified[n].listeners) :
          \E i \in 1..Len(ev.invoked) :
            ev.invoked[i].listener = l /\ ev.invoked[i].n = n

\* The Actuator threw in the flush of a notification that had a listener to
\* reach, and no listener was invoked.
C32_ThrowSkipsListeners ==
  /\ ev.op = "runtime write" /\ ev.threw = "actuator"
  /\ Len(ev.notified) = 1 /\ ev.notified[1].listeners # <<>>
  /\ ev.invoked = <<>>

\* C33: with debounceMs = 0 no timer is ever armed and the pending set is
\* empty whenever no handler runs; every run of schedulePush flushes at once,
\* inside the notification, and drains the paths that notification changed.
C33_SynchronousFlush ==
  debounceMs = 0 =>
    /\ syncTimeoutId = Null /\ DOMAIN timers = {}
    /\ pendingPaths = {}
    /\ ev.flushes = ev.scheduled
    /\ ev.scheduled > 0 =>
         \A n \in 1..Len(ev.notified) :
           ev.notified[n].wired /\ ~ev.notified[n].disposed =>
             ev.notified[n].changedPaths \subseteq ev.drained

\* C33 witness: a runtime write was flushed to the Actuator inside its own
\* notification.
C33_Witness ==
  /\ debounceMs = 0 /\ ev.op = "runtime write"
  /\ ev.scheduled = 1 /\ ev.flushes = 1 /\ ActuatorCalls # {}
  /\ pendingPaths = {}

\* C34: on a live instance with debounceMs > 0, whenever the pending set is
\* not empty a debounce timer is armed: syncTimeoutId names a live timer.
C34_PendingHasTimer ==
  ~isDisposed /\ debounceMs > 0 /\ pendingPaths # {} =>
    syncTimeoutId # Null /\ syncTimeoutId \in DOMAIN timers

\* sync() cancelled the timer of a pending push and left the paths pending.
C34_SyncLeavesPending ==
  /\ ev.op = "sync" /\ ev.threw = "none" /\ debounceMs > 0
  /\ pendingPaths # {} /\ syncTimeoutId = Null /\ DOMAIN timers = {}

\* The live bidirectional bridge with the defaults of autoSync and debounceMs
\* has processed an Adapter notification to its end.
PulledInBidirectional ==
  /\ syncMode = "bidirectional" /\ autoSync /\ debounceMs = 0
  /\ ev.op \in {"adapter notification", "store edit"}
  /\ ~ev.wasDisposed /\ ev.threw = "none"

\* C35 as stated: after the notification of an external edit has been
\* processed, the store's and the runtime's value of every reported data or
\* state path are equal, whether runtime.set accepted the value or not.
C35_StoreEqualsRuntime ==
  PulledInBidirectional =>
    \A p \in ev.batch \cap StoredPaths : ext[p] = rt[p]

\* C35 amended: they are equal for every reported path whose pulled value
\* runtime.set accepted.
C35_AcceptedPullAgrees ==
  PulledInBidirectional =>
    \A p \in ev.batch \cap StoredPaths :
      ev.answers[p] = "ok" => ext[p] = rt[p]

\* C35 witness: an edit of data.a was pulled, accepted, announced by the
\* runtime and pushed back to the store.
C35_Witness ==
  /\ PulledInBidirectional /\ da \in ev.batch /\ ev.answers[da] = "ok"
  /\ Len(ev.notified) = 1 /\ da \in ev.notified[1].changedPaths
  /\ \E i \in ActuatorCalls : da \in DOMAIN ev.calls[i].upd
  /\ ext[da] = "v1" /\ rt[da] = "v1"

\* A rejected edit stayed in the store while the runtime kept its value.
C35_RejectedEditStays ==
  /\ PulledInBidirectional /\ da \in ev.batch /\ ev.answers[da] = "invalid"
  /\ ext[da] # rt[da] /\ ev.notified = <<>>

C37_OldDisposedNewLive ==
  hookPhase = "mounted" =>
    /\ ~hookBridges[bridgeRef].isDisposed
    /\ \A b \in 1..(bridgeRef - 1) : hookBridges[b].isDisposed

\* A render with a new form created a second bridge: the cleanup of the first
\* render's effect disposed the second bridge and left the first one live.
C37_NewDisposedOldLive ==
  /\ hookPhase = "mounted" /\ hev.op = "render"
  /\ Len(hookBridges) = 2 /\ bridgeRef = 2
  /\ hookBridges[2].isDisposed /\ ~hookBridges[1].isDisposed

\* C38: with autoSync on and debounceMs = 0, every listener invocation for a
\* runtime notification comes after the last Actuator call of the flush of
\* that notification, and the listener finds in the store the snapshot's
\* value of every data and state path the notification reports as changed.
C38_PushedBeforeListeners ==
  autoSync /\ debounceMs = 0 =>
    \A i \in 1..Len(ev.invoked) :
      LET n == ev.invoked[i].n IN
      /\ n <= Len(ev.pushed)
      /\ ev.pushed[n].paths = ev.notified[n].changedPaths
      /\ ev.pushed[n].to <= ev.invoked[i].at
      /\ \A p \in ev.notified[n].changedPaths \cap StoredPaths :
           /\ \E c \in ev.pushed[n].from .. ev.pushed[n].to :
                /\ ev.calls[c].to = "actuator" /\ p \in DOMAIN ev.calls[c].upd
           /\ ev.invoked[i].store[p] = ev.invoked[i].snapshot[p]

\* C38 witness: a listener invoked for a runtime write of data.a found the
\* new value in the store, which held the old one before the step.
C38_Witness ==
  /\ autoSync /\ debounceMs = 0 /\ ev.op = "runtime write"
  /\ Len(ev.invoked) > 0 /\ da \in ev.invoked[1].changedPaths
  /\ ev.invoked[1].store[da] = "v1" /\ ev.invoked[1].snapshot[da] = "v1"
  /\ ev.invoked[1].at > 0

\* The methods of the Bridge object that look at isDisposed first.
GuardedOps ==
  {"execute", "get", "getFieldPolicy", "isActionAvailable", "capture", "sync",
   "subscribe"}

\* C39: a call of execute, get, getFieldPolicy, isActionAvailable, capture,
\* sync or subscribe on a disposed instance calls neither the runtime nor the
\* Adapter nor the Actuator, and changes nothing of the closure state, the
\* timers, the runtime's values, the store or the suspended execute calls; it
\* only throws 'Bridge is disposed' or, for execute, resolves to
\* DISPOSED_ERROR.
C39_RejectedCallTouchesNothing ==
  [][ isDisposed /\ ev'.op \in GuardedOps =>
        /\ ev'.calls = <<>> /\ ev'.notified = <<>> /\ ev'.invoked = <<>>
        /\ UNCHANGED <<engine, timers, rt, ext, inflight, called>>
        /\ IF ev'.op = "execute"
           THEN ev'.threw = "none" /\ ev'.result = "DISPOSED_ERROR"
           ELSE ev'.threw = "Bridge is disposed"
    ]_vars

\* C39 witness: isActionAvailable was called on a disposed instance whose
\* store had been edited since.
C39_Witness ==
  /\ isDisposed /\ ev.wasDisposed /\ ev.op = "isActionAvailable"
  /\ ev.threw = "Bridge is disposed" /\ ext[da] # rt[da]

\* C39 second witness: execute(EXECUTE_ACTION) was called on a disposed
\* instance that still had an execute call suspended.
C39_ExecuteWhileInflight ==
  /\ isDisposed /\ ev.wasDisposed /\ ev.op = "execute"
  /\ ev.tag = "EXECUTE_ACTION" /\ inflight > 0

\* C40: on a Zustand adapter, a store change that alters a selected key
\* invokes each listener in the Set exactly once and nobody else, and once
\* the Set is empty again no subscription of the adapter is left installed on
\* the store.
C40_OncePerListenerNoLeak ==
  adapterKind = "zustand" =>
    /\ aev.op = "setState" /\ aev.changed # {} =>
         /\ \A l \in aev.hadListeners :
              Cardinality({i \in 1..Len(aev.invoked) :
                             aev.invoked[i].listener = l}) = 1
         /\ \A i \in 1..Len(aev.invoked) :
              aev.invoked[i].listener \in aev.hadListeners
    /\ zListeners = <<>> => \A k \in 1..Len(zSubs) : ~zSubs[k].live

\* Two listeners were subscribed and one store change invoked each of them
\* twice, once from each subscribe call's store subscription.
C40_InvokedTwice ==
  /\ adapterKind = "zustand" /\ aev.op = "setState" /\ aev.changed # {}
  /\ Cardinality(aev.hadListeners) = 2 /\ Len(aev.invoked) = 4
  /\ {aev.invoked[i].sub : i \in 1..Len(aev.invoked)} = {1, 2}

\* Both listeners have unsubscribed, first come first gone, and the first
\* subscribe call's store subscription is still installed.
C40_LeakedSubscription ==
  /\ adapterKind = "zustand" /\ aev.op = "unsubscribe"
  /\ zListeners = <<>> /\ Len(zSubs) = 2
  /\ zSubs[1].live /\ ~zSubs[2].live

====
